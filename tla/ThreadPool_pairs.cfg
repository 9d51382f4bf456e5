CONSTANTS
    loop_twice = loop_twice
    resize_loop = resize_loop
    async_ring = async_ring
    shut_down = shut_down
    nest = nest
    fork_rows = fork_rows
    fork_tiles = fork_tiles
    fill_pairs = fill_pairs
    Clients = {fill_pairs}
    Together = {{fill_pairs}}
    MaxThreads = 3
    DefaultThreads = 2
    Task <- PairsTask
    Main <- Pipelines
SPECIFICATION FairSpec
PROPERTIES EveryCallReturns
CHECK_DEADLOCK FALSE
