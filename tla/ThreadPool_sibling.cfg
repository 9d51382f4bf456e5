CONSTANTS
    loop_twice = loop_twice
    resize_loop = resize_loop
    async_ring = async_ring
    shut_down = shut_down
    nest = nest
    fork_rows = fork_rows
    fork_tiles = fork_tiles
    fill_pairs = fill_pairs
    Clients = {async_ring}
    Together = {{async_ring}}
    MaxThreads = 2
    DefaultThreads = 2
    Task <- FailRingTask
    Main <- Pipelines
SPECIFICATION FairSpec
PROPERTIES EveryCallReturns
CHECK_DEADLOCK FALSE
