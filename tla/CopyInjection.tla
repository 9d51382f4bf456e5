--------------------------- MODULE CopyInjection ---------------------------
(* src/src/InjectHostDevBufferCopies.cpp: the compiler walks over the statements     *)
(* that use a buffer, keeps what it knows of the buffer's dirty flags and device      *)
(* memory, and puts copies and allocations before a statement and dirty flags after   *)
(* it.  Here the program runs while it is compiled: a step compiles the next          *)
(* statement, whatever it is, and runs what was emitted for it (DeviceBuffer).  Of     *)
(* a condition one branch runs, and the other one is compiled only.                   *)
EXTENDS Integers, FiniteSets

CONSTANTS Devices, Host, Null

VARIABLES
    external,          \* is_external: an input or output, no allocation of the pipeline
    touched,           \* devices_touched: where the pipeline touches it, Host or devices
    passed,            \* devices_touched_by_extern: where the extern stages run that it is passed to
    state,             \* what the compiler knows
    entry,             \* what it knew where the loop begins; Null outside of one
    other,             \* what it knows in the branch that does not run; Null outside of one
    buffer,            \* the buffer at run time
    over               \* the pipeline has failed

vars == <<external, touched, passed, state, entry, other, buffer, over>>

Runtime == INSTANCE DeviceBuffer WITH Buffers <- {Host}, buf <- [b \in {Host} |-> buffer]

Ignorant == [device_dirty |-> "Unknown", host_dirty |-> "Unknown",
             device_allocation_exists |-> "Unknown", current_device |-> Null]

Fresh == [device_dirty |-> "False", host_dirty |-> "False",
          device_allocation_exists |-> "False", current_device |-> Null]

\* Of what is known on two ways, what is known on both.
union_with(s, t) ==
    LET Both(a, b) == IF a = b THEN a ELSE "Unknown"
        same == /\ s.device_allocation_exists = t.device_allocation_exists
                /\ s.current_device = t.current_device
    IN  [device_dirty |-> Both(s.device_dirty, t.device_dirty),
         host_dirty |-> Both(s.host_dirty, t.host_dirty),
         device_allocation_exists |-> IF same THEN s.device_allocation_exists ELSE "Unknown",
         current_device |-> IF same THEN s.current_device ELSE Null]

\* A statement touches the buffer on one side.  An extern stage that has it as an output
\* touches it where the stage runs; one that has it as an input sees to it itself.
Uses ==
    [side : touched, writes : BOOLEAN, extern : {FALSE}]
    \cup [side : touched \cap passed, writes : {TRUE}, extern : {TRUE}]
    \cup [side : {s \in {Null} : passed # {}}, writes : {FALSE}, extern : {TRUE}]
-----------------------------------------------------------------------------
(* do_copies *)

OnDevice(use) == use.side \in Devices

NeedsFlip(s, use) ==
    /\ OnDevice(use) /\ ~external
    /\ s.device_allocation_exists # "False"
    /\ s.current_device \notin {use.side, Null}

NeedsCopyToDevice(s, use) == OnDevice(use) /\ (s.host_dirty # "False" \/ NeedsFlip(s, use))

NeedsMalloc(s, use) ==
    OnDevice(use) /\ s.device_allocation_exists # "True" /\ ~NeedsCopyToDevice(s, use)

NeedsCopyToHost(s, use) == (use.side = Host \/ NeedsFlip(s, use)) /\ s.device_dirty # "False"

\* These too are decided before the copies.
NeedsHostDirty(s, use) == use.side = Host /\ use.writes /\ s.host_dirty # "True"
NeedsDeviceDirty(s, use) == OnDevice(use) /\ use.writes /\ s.device_dirty # "True"

AfterCopies(s, use) ==
    LET allocates == NeedsCopyToDevice(s, use) \/ NeedsMalloc(s, use) IN
    [device_dirty |-> IF NeedsCopyToHost(s, use) \/ NeedsFlip(s, use) THEN "False"
                      ELSE s.device_dirty,
     host_dirty   |-> IF NeedsCopyToDevice(s, use) THEN "False" ELSE s.host_dirty,
     device_allocation_exists |-> IF allocates THEN "True" ELSE s.device_allocation_exists,
     current_device           |-> IF allocates THEN use.side ELSE s.current_device]

\* An extern stage leaves nothing known but the bit that is set after it.
AfterUse(s, use) ==
    LET copied == AfterCopies(s, use)
        Kept(flag) == IF use.extern THEN "Unknown" ELSE flag
    IN  [device_dirty |-> IF NeedsDeviceDirty(s, use) THEN "True"
                          ELSE Kept(copied.device_dirty),
         host_dirty   |-> IF NeedsHostDirty(s, use) THEN "True" ELSE Kept(copied.host_dirty),
         device_allocation_exists |-> Kept(copied.device_allocation_exists),
         current_device           |-> IF use.extern THEN Null ELSE copied.current_device]

CopyToHost(r) == IF Runtime!Valid(r) THEN Runtime!ToHost(r) ELSE {Runtime!Failed(r)}

Flip(r) == Runtime!Free([r EXCEPT !.host_dirty = TRUE])

\* What comes of the calls before a statement: one that fails stops the pipeline.
Before(s, use) ==
    LET Failures(outs) == {o \in outs : ~o.done}
        Goods(outs)    == {o.r : o \in outs \ Failures(outs)}
        host    == IF NeedsCopyToHost(s, use) THEN CopyToHost(buffer)
                   ELSE {Runtime!Done(buffer)}
        flipped == IF NeedsFlip(s, use)
                   THEN Failures(host) \cup UNION {Flip(r) : r \in Goods(host)}
                   ELSE host
    IN  IF NeedsCopyToDevice(s, use)
        THEN Failures(flipped) \cup UNION {Runtime!ToDevice(r, use.side) : r \in Goods(flipped)}
        ELSE IF NeedsMalloc(s, use)
        THEN Failures(flipped) \cup UNION {Runtime!Malloc(r, use.side) : r \in Goods(flipped)}
        ELSE flipped

Written(r, side) ==
    [r EXCEPT !.live = TRUE, !.host_current = (side = Host), !.device_current = (side # Host)]

\* The contents are somewhere, the bits say where, and a device that gets new memory would
\* be given them.
Consistent(r) ==
    /\ Runtime!Valid(r) /\ Runtime!CurrentIn(r)
    /\ r.live => (r.host /\ r.host_current) \/ (r.device /\ r.device_current)
    /\ r.live /\ ~r.device => r.host_dirty

\* Where an extern stage or the caller may leave contents.
Placed(host, live) ==
    {r \in [host : {host}, live : {live}, native : {FALSE}, device : BOOLEAN,
            interface : Devices \cup {Null}, host_dirty : BOOLEAN, device_dirty : BOOLEAN,
            host_current : BOOLEAN, device_current : BOOLEAN] : Consistent(r)}

\* The statement runs.  An extern stage may set the bit of its output itself.
Runs(r, use) ==
    IF use.side = Null THEN Placed(r.host, r.live)
    ELSE IF ~use.writes THEN {r}
    ELSE LET w == Written(r, use.side) IN
         IF ~use.extern THEN {w}
         ELSE {w, IF use.side = Host THEN [w EXCEPT !.host_dirty = TRUE]
                  ELSE [w EXCEPT !.device_dirty = TRUE]}

Marked(s, r, use) ==
    [r EXCEPT !.host_dirty = @ \/ NeedsHostDirty(s, use),
              !.device_dirty = @ \/ NeedsDeviceDirty(s, use)]
-----------------------------------------------------------------------------
\* An allocation that is used on the host and on one device is made for both at once; one
\* that is used on a device only, by extern stages too, has no host memory.
Combined == ~external /\ Host \in touched /\ Cardinality(touched) = 2
HostOmitted ==
    /\ ~external /\ Host \notin touched /\ Cardinality(touched) = 1
    /\ passed \subseteq touched

Allocated ==
    [Runtime!Nothing EXCEPT !.host = ~HostOmitted, !.device = Combined,
        !.interface = IF Combined THEN CHOOSE d \in touched : d # Host ELSE Null]

Init ==
    /\ external \in BOOLEAN
    /\ touched \in SUBSET (Devices \cup {Host}) \ {{}}
    /\ passed \in SUBSET (Devices \cup {Host})
    /\ ~external => touched # {Host} \/ passed # {}        \* else nothing is injected
    /\ over = FALSE /\ entry = Null /\ other = Null
    /\ IF external
       THEN /\ state = Ignorant
            /\ \E host, live \in BOOLEAN : buffer \in Placed(host, live)
            /\ Host \in touched => buffer.host
       ELSE state = Fresh /\ buffer = Allocated

Leaf(use) ==
    /\ ~over
    /\ \E o \in Before(state, use) :
        IF o.done
        THEN /\ \E r \in Runs(o.r, use) : buffer' = Marked(state, r, use)
             /\ state' = AfterUse(state, use)
             /\ UNCHANGED over
        ELSE buffer' = o.r /\ over' = TRUE /\ UNCHANGED state
    /\ UNCHANGED <<external, touched, passed, entry, other>>

\* Mutant: only the flags are forgotten.
AtLoopFlags(s) == [s EXCEPT !.device_dirty = "Unknown", !.host_dirty = "Unknown"]

\* What is known where a loop begins that touches the buffer on several sides: its body
\* is compiled once, and runs as often as it likes.
AtLoop(s) == Ignorant

Loop ==
    /\ ~over /\ entry = Null /\ other = Null
    /\ entry' = AtLoop(state)
    /\ state' = entry'
    /\ UNCHANGED <<external, touched, passed, other, buffer, over>>

\* The next iteration.
Again ==
    /\ ~over /\ entry # Null /\ other = Null
    /\ state' = entry
    /\ UNCHANGED <<external, touched, passed, entry, other, buffer, over>>

EndLoop ==
    /\ ~over /\ entry # Null /\ other = Null
    /\ entry' = Null
    /\ state' = Ignorant
    /\ UNCHANGED <<external, touched, passed, other, buffer, over>>

If ==
    /\ ~over /\ other = Null
    /\ other' = state
    /\ UNCHANGED <<external, touched, passed, state, entry, buffer, over>>

\* The branch that does not run.
OtherLeaf(use) ==
    /\ ~over /\ other # Null
    /\ other' = AfterUse(other, use)
    /\ UNCHANGED <<external, touched, passed, state, entry, buffer, over>>

\* Either of the two may be the one that ran.
EndIf ==
    /\ ~over /\ other # Null
    /\ state' \in {union_with(state, other), union_with(other, state)}
    /\ other' = Null
    /\ UNCHANGED <<external, touched, passed, entry, buffer, over>>

Next ==
    \/ \E use \in Uses : Leaf(use) \/ OtherLeaf(use)
    \/ Loop \/ Again \/ EndLoop \/ If \/ EndIf

Spec == Init /\ [][Next]_vars
-----------------------------------------------------------------------------
\* The compiler knows a flag or not, and a device only with memory on it.
TypeOK ==
    \A s \in {state, entry, other} \ {Null} :
        /\ {s.device_dirty, s.host_dirty, s.device_allocation_exists}
               \subseteq {"Unknown", "False", "True"}
        /\ s.current_device \in Devices \cup {Null}
        /\ s.device_allocation_exists = "True" => s.current_device # Null

Ready(r, side) ==
    IF side = Host THEN r.host /\ (r.live => r.host_current)
    ELSE r.device /\ r.interface = side /\ (r.live => r.device_current)

\* "Insert any appropriate copies/allocations before": whatever statement comes next, once
\* the calls before it have succeeded, the side it touches is there and holds the latest
\* contents.  An extern stage on the host has host memory to copy an allocation of the
\* pipeline to.
LeavesReady ==
    /\ ~over => \A use \in {u \in Uses : u.side # Null} :
                \A o \in Before(state, use) : o.done => Ready(o.r, use.side)
    /\ ~external /\ Host \in passed => buffer.host

\* What the compiler knows is so, whichever way the program took; and a buffer of the
\* caller is left as its bits say even when the pipeline fails.
KnowledgeTrue ==
    LET True(flag, bit) == flag = "Unknown" \/ flag = (IF bit THEN "True" ELSE "False") IN
    IF over THEN Runtime!Valid(buffer) /\ Runtime!CurrentIn(buffer)
    ELSE /\ Consistent(buffer)
         /\ True(state.device_dirty, buffer.device_dirty)
         /\ True(state.host_dirty, buffer.host_dirty)
         /\ Combined \/ True(state.device_allocation_exists, buffer.device)
         /\ state.device_allocation_exists = "True" =>
                buffer.device /\ buffer.interface = state.current_device

\* An allocation of the pipeline can move on to any device, as long as it is known where
\* it is: nothing that is emitted is refused.
FlipsAccepted ==
    ~external /\ ~over /\ state.device_allocation_exists # "Unknown" =>
        \A use \in Uses : \E o \in Before(state, use) : o.done
=============================================================================
