CONSTANTS
    loop_twice = loop_twice
    resize_loop = resize_loop
    async_ring = async_ring
    shut_down = shut_down
    nest = nest
    fork_rows = fork_rows
    fork_tiles = fork_tiles
    fill_pairs = fill_pairs
    Clients = {loop_twice, resize_loop, async_ring, shut_down, nest, fork_rows, fork_tiles}
    Together = {{loop_twice, resize_loop}, {async_ring}, {shut_down}, {nest}, {fork_rows}, {fork_tiles}}
    MaxThreads = 4
    DefaultThreads = 4
    Task <- PoolTask
    Main <- PoolPipelines
SPECIFICATION FairSpec
INVARIANTS TypeOK TeamsExact SerialInOrder RingInOrder NoDanglingJob CompleteOnReturn CountsExact NeverAborts
PROPERTIES EveryCallReturns
CHECK_DEADLOCK FALSE
