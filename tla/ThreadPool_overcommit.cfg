CONSTANTS
    loop_twice = loop_twice
    resize_loop = resize_loop
    async_ring = async_ring
    shut_down = shut_down
    nest = nest
    fork_rows = fork_rows
    fork_tiles = fork_tiles
    fill_pairs = fill_pairs
    Clients = {fork_rows}
    Together = {{fork_rows}}
    MaxThreads = 5
    DefaultThreads = 5
    Task <- WideTask
    Main <- Pipelines
SPECIFICATION Spec
INVARIANTS NeverAborts
CHECK_DEADLOCK FALSE
