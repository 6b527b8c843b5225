SPECIFICATION WatcherSpec
CONSTANT MaxEvents = 2
PROPERTY ChangedFilesBecomeJobs
CHECK_DEADLOCK FALSE
