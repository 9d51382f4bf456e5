---------------------------- MODULE DeviceBuffer ----------------------------
(* src/runtime/device_interface.cpp: buffers that live in host memory, in the    *)
(* memory of one device, or in both, and two dirty bits that tell which side is  *)
(* current.  A call is one step; each thing it asks of a device may fail, and    *)
(* the call leaves what was done before it.  Of the contents only this matters:  *)
(* does a side hold what was last written to, or copied into, the buffer.        *)
EXTENDS Integers

CONSTANTS Buffers,
          Devices,         \* device interfaces
          Null

VARIABLE buf

Nothing == [host |-> FALSE, device |-> FALSE, interface |-> Null,
            host_dirty |-> FALSE, device_dirty |-> FALSE,
            native |-> FALSE,                        \* device wraps a handle of the user
            host_current |-> FALSE, device_current |-> FALSE,
            live |-> FALSE]                          \* it has contents that matter

Init == buf = [b \in Buffers |-> Nothing]

\* debug_log_and_validate_buf
Valid(r) ==
    /\ r.device <=> r.interface # Null
    /\ ~(r.host_dirty /\ r.device_dirty)

(* What a call on a buffer r may end in: its error code, as done or not, and the *)
(* buffer.                                                                       *)
Done(r)     == [done |-> TRUE, r |-> r]
Failed(r)   == [done |-> FALSE, r |-> r]
MayFail(r, s) == {Done(s), Failed(r)}

Memory(r, d) == [r EXCEPT !.device = TRUE, !.interface = d, !.device_current = FALSE]

\* halide_device_malloc
Malloc(r, d) ==
    IF ~Valid(r) \/ r.interface \notin {Null, d} THEN {Failed(r)}
    ELSE IF r.device THEN {Done(r)}
    ELSE MayFail(r, Memory(r, d))

\* copy_to_host_already_locked
ToHost(r) ==
    IF ~r.device_dirty THEN {Done(r)}
    ELSE IF r.host_dirty \/ r.interface = Null THEN {Failed(r)}
    ELSE MayFail(r, [r EXCEPT !.device_dirty = FALSE, !.host_current = r.device_current])

Upload(r) ==
    IF ~r.host_dirty THEN {Done(r)}
    ELSE MayFail(r, [r EXCEPT !.host_dirty = FALSE, !.device_current = r.host_current])

\* copy_to_device_already_locked
ToDevice(r, d) ==
    LET target == IF d = Null THEN r.interface ELSE d IN
    IF ~Valid(r) \/ target = Null \/ (r.device /\ r.interface # target) THEN {Failed(r)}
    ELSE LET ready == IF r.device THEN {Done(r)} ELSE Malloc(r, target)
         IN  {f \in ready : ~f.done} \cup UNION {Upload(o.r) : o \in {f \in ready : f.done}}

\* halide_device_free.  Contents that were only there are dropped.
Free(r) ==
    LET freed == [r EXCEPT !.device = FALSE, !.interface = Null, !.device_dirty = FALSE,
                           !.device_current = FALSE, !.live = r.live /\ r.host /\ ~r.device_dirty]
    IN  IF ~Valid(r) THEN {Failed(r)}
        ELSE IF r.interface = Null THEN {Done(freed)} ELSE MayFail(r, freed)

WithoutHost(r) == [r EXCEPT !.host = FALSE, !.host_current = FALSE]

\* halide_device_and_host_malloc with its default implementation.
MallocBoth(r, d) ==
    IF ~Valid(r) \/ r.interface \notin {Null, d} THEN {Failed(r)}
    ELSE {Failed(r)} \cup {IF o.done THEN o ELSE Failed(WithoutHost(o.r)) :
                               o \in Malloc([r EXCEPT !.host = TRUE], d)}

\* halide_device_and_host_free with its default implementation; a buffer without a
\* device keeps its host_dirty.
FreeBoth(r) ==
    IF ~Valid(r) THEN {Failed(r)}
    ELSE IF r.interface = Null THEN {Done([WithoutHost(r) EXCEPT !.device_dirty = FALSE,
                                                                 !.live = FALSE])}
    ELSE {[o EXCEPT !.r = [WithoutHost(@) EXCEPT !.host_dirty = FALSE, !.device_dirty = FALSE,
                                                 !.live = FALSE]] : o \in Free(r)}

\* halide_device_wrap_native with its default implementation.
Wrap(r, d) ==
    IF ~Valid(r) \/ r.interface \notin {Null, d} \/ r.device THEN {Failed(r)}
    ELSE {Done([Memory(r, d) EXCEPT !.native = TRUE])}

\* halide_device_detach_native with its default implementation: device_dirty stays.
Detach(r) ==
    IF ~Valid(r) THEN {Failed(r)}
    ELSE {Done([r EXCEPT !.device = FALSE, !.interface = Null, !.native = FALSE,
                         !.device_current = FALSE, !.live = r.live /\ ~r.device_dirty])}
-----------------------------------------------------------------------------
(* halide_buffer_copy_already_locked *)

\* The side that the buffer_copy of device d reads.
ReadsHost(d, r) == r.interface # d \/ ~r.device \/ (r.host_dirty /\ r.host)

Reads(d, r) == IF ReadsHost(d, r) THEN r.host_current ELSE r.device_current

\* The device's own buffer_copy, from one buffer into one side of another: it leaves to
\* its caller what comes from another device.
Refused(d, s) == (s.device_dirty \/ ~s.host) /\ s.interface # d

IntoHost(r, s, current) == [r EXCEPT !.host_current = current, !.device_current = FALSE,
                                     !.live = s.live]
IntoDevice(r, s, current) == [r EXCEPT !.device_current = current, !.host_current = FALSE,
                                       !.live = s.live]

(* A copy ends in the two buffers.                                               *)
Ends(done, s, r) == [done |-> done, s |-> s, r |-> r]

FromDeviceValid(s) == s.device /\ (~s.host \/ ~s.host_dirty)
FromHostValid(s)   == s.host /\ (~s.device_dirty \/ s.interface = Null)

Mark(r, d) == [r EXCEPT !.host_dirty = (d = Null), !.device_dirty = (d # Null)]

Copied(s, r, d) ==
    IF d = Null THEN Ends(TRUE, s, Mark(IntoHost(r, s, s.host_current), d))
    ELSE Ends(TRUE, s, Mark(IntoDevice(r, s, Reads(d, s)), d))

CopyToHost(s, r) ==
    {Ends(FALSE, s, r)}
    \cup (IF FromHostValid(s) THEN {Copied(s, r, Null)} ELSE {})
    \cup (IF ~FromHostValid(s) /\ FromDeviceValid(s)
          THEN {Ends(TRUE, s, Mark(IntoHost(r, s, Reads(s.interface, s)), Null))} ELSE {})

\* Device to device through the destination's host memory.
ThroughDestination(s, r, d) ==
    LET h == [IntoHost(r, s, Reads(s.interface, s)) EXCEPT !.host_dirty = TRUE]
    IN  {Ends(FALSE, s, r)}
        \cup {Ends(o.done, s, IF o.done THEN Mark(o.r, d) ELSE o.r) : o \in ToDevice(h, d)}

\* And through the source's.
ThroughSource(s, r, d) ==
    LET out == ToHost(s)
    IN  {Ends(FALSE, o.r, r) : o \in out}
        \cup {Copied(o.r, r, d) : o \in {f \in out : f.done /\ ~Refused(d, f.r)}}

CopyToDevice(s, r, d) ==
    IF FromDeviceValid(s) /\ ~Refused(d, s) THEN {Ends(FALSE, s, r), Copied(s, r, d)}
    ELSE IF ~s.host /\ ~r.host THEN {Ends(FALSE, s, r)}
    ELSE IF FromDeviceValid(s) /\ r.host THEN ThroughDestination(s, r, d)
    ELSE ThroughSource(s, r, d)

BufferCopy(s, r, d) ==
    IF d = Null THEN IF r.host THEN CopyToHost(s, r) ELSE {Ends(FALSE, s, r)}
    ELSE IF r.interface \notin {Null, d} THEN {Ends(FALSE, s, r)}
    ELSE LET ready == IF r.device THEN {Done(r)} ELSE Malloc(r, d)
         IN  {Ends(FALSE, s, o.r) : o \in {f \in ready : ~f.done}}
             \cup UNION {CopyToDevice(s, o.r, d) : o \in {f \in ready : f.done}}
-----------------------------------------------------------------------------
(* Users and pipelines *)

Ends1(b, outcomes) == \E o \in outcomes : buf' = [buf EXCEPT ![b] = o.r]

AllocateHost(b) ==
    /\ ~buf[b].host /\ ~buf[b].live
    /\ buf' = [buf EXCEPT ![b].host = TRUE, ![b].host_current = FALSE]

\* Buffer::set_host_dirty asserts that the device is not dirty.
WriteHost(b) ==
    /\ buf[b].host /\ ~buf[b].device_dirty
    /\ buf' = [buf EXCEPT ![b].host_dirty = TRUE, ![b].host_current = TRUE,
                          ![b].device_current = FALSE, ![b].live = TRUE]

\* Of a pipeline's kernel, or of the user through a native handle.
WriteDevice(b) ==
    /\ buf[b].device /\ ~buf[b].host_dirty
    /\ buf' = [buf EXCEPT ![b].device_dirty = TRUE, ![b].device_current = TRUE,
                          ![b].host_current = FALSE, ![b].live = TRUE]

halide_copy_to_host(b) ==
    /\ buf[b].host
    /\ Ends1(b, IF Valid(buf[b]) THEN ToHost(buf[b]) ELSE {Failed(buf[b])})

halide_copy_to_device(b, d) ==
    /\ buf[b].host
    /\ Ends1(b, ToDevice(buf[b], d))

halide_device_malloc(b, d) == Ends1(b, Malloc(buf[b], d))

halide_device_free(b) == ~buf[b].native /\ Ends1(b, Free(buf[b]))

halide_device_and_host_malloc(b, d) == ~buf[b].host /\ Ends1(b, MallocBoth(buf[b], d))

halide_device_and_host_free(b) == ~buf[b].native /\ Ends1(b, FreeBoth(buf[b]))

halide_device_wrap_native(b, d) == Ends1(b, Wrap(buf[b], d))

halide_device_detach_native(b) == buf[b].native /\ Ends1(b, Detach(buf[b]))

halide_buffer_copy(a, b, d) ==
    /\ a # b
    /\ \E o \in BufferCopy(buf[a], buf[b], d) : buf' = [buf EXCEPT ![a] = o.s, ![b] = o.r]

\* Calls that may give the buffer device memory.
MayAllocate(b) ==
    \/ \E d \in Devices : \/ halide_device_malloc(b, d) \/ halide_device_and_host_malloc(b, d)
                           \/ halide_device_wrap_native(b, d)
    \/ \E d \in Devices \cup {Null} : halide_copy_to_device(b, d)

Other(b) ==
    \/ AllocateHost(b) \/ WriteHost(b) \/ WriteDevice(b)
    \/ halide_copy_to_host(b) \/ halide_device_free(b)
    \/ halide_device_and_host_free(b) \/ halide_device_detach_native(b)

Copy(a, b) == \E d \in Devices \cup {Null} : halide_buffer_copy(a, b, d)

Next ==
    \/ \E b \in Buffers : MayAllocate(b) \/ Other(b)
    \/ \E a, b \in Buffers : Copy(a, b)

Spec == Init /\ [][Next]_buf
-----------------------------------------------------------------------------
TypeOK == buf \in [Buffers -> [host : BOOLEAN, device : BOOLEAN, interface : Devices \cup {Null},
                               host_dirty : BOOLEAN, device_dirty : BOOLEAN, native : BOOLEAN,
                               host_current : BOOLEAN, device_current : BOOLEAN, live : BOOLEAN]]

\* halide_error_code_host_and_device_dirty: "Buffer has both host and device dirty bits
\* set, which violates a Halide invariant."  No sequence of calls, failed ones included,
\* leads to a buffer that every later call refuses.
AlwaysValid == \A b \in Buffers : Valid(buf[b])

CurrentIn(r) ==
    r.live =>
        /\ r.host_dirty => r.host /\ r.host_current
        /\ r.device_dirty => r.device /\ r.device_current
        /\ ~r.host_dirty /\ ~r.device_dirty =>
               /\ r.host => r.host_current
               /\ r.device => r.device_current

\* Whatever was copied where and whatever failed on the way, the side that the bits name
\* is there and holds the latest contents; without a bit every side does.
Current == \A b \in Buffers : CurrentIn(buf[b])
=============================================================================
