------------------------------- MODULE Objects -------------------------------
(* Reference-counted objects, the interfaces that plug them together and the
   run queue of processes (core/refcnt.c, core/interface.c, core/process.c).

   Objects call one another through their interfaces and are called back from
   within those calls.  An operation is therefore written as a function from a
   world to a world that does what comes before its first call and pushes the
   calls it still has to make, in order, on the stack of the world.  A world is a
   record whose fields of interest here are
     stack the calls that remain to be made: tuples <<operation, arguments>>
     cnt   the reference count of each object, NotAllocated once it is freed
     dest  the interface each interface is plugged into (null_intf: none)
     on    FALSE once the interface's descriptor is null_intf_desc
     runq  the run queue, a sequence of objects: each has at most one process
     bad   TRUE once an object that has been freed was used
     fuel  how many more allocations succeed (negative: all of them)
     ret   what the last call that can fail returned, "OK" or "ERR"
   An interface is a pair <<object, name>>.                                   *)
EXTENDS Integers, Sequences

CONSTANT Counted    \* the objects with a reference counter; others are static

NotAllocated == -1
null_intf == << <<"null", 0>>, "" >>
Owner(i) == i[1]

Used(w, o) == o \in Counted => w.cnt[o] > NotAllocated
Use(w, o) == [w EXCEPT !.bad = @ \/ ~Used(w, o)]

ref_get(w, o) ==
    IF o \in Counted THEN [Use(w, o) EXCEPT !.cnt[o] = @ + 1] ELSE w

\* Freeing an object forgets its interfaces; it does not unplug them, so what
\* they are still plugged into keeps the reference they held.
Free(w, o) ==
    [w EXCEPT !.dest = [i \in DOMAIN @ |-> IF Owner(i) = o THEN null_intf ELSE @[i]]]

ref_put(w, o) ==
    IF o \notin Counted THEN w
    ELSE LET v == [Use(w, o) EXCEPT !.cnt[o] = @ - 1]
         IN  IF v.cnt[o] = NotAllocated THEN Free(v, o) ELSE v

\* A new object, its interfaces initialised; those in Mute start out with
\* null_intf_desc.  The caller owns the one reference the counter stands for.
zalloc(w, o, Mute) ==
    IF w.fuel = 0 THEN [w EXCEPT !.ret = "ERR"]
    ELSE [w EXCEPT !.fuel = @ - 1, !.ret = "OK", !.cnt[o] = 0,
                   !.on = [i \in DOMAIN @ |-> IF Owner(i) = o THEN i[2] \notin Mute
                                              ELSE @[i]]]

intf_plug(w, i, d) ==
    LET v == ref_put(ref_get(w, Owner(d)), Owner(w.dest[i]))
    IN  [Use(v, Owner(i)) EXCEPT !.dest[i] = d]

intf_plug_plug(w, a, b) == intf_plug(intf_plug(w, a, b), b, a)

intf_unplug(w, i) == intf_plug(w, i, null_intf)

intf_nullify(w, i) == [Use(w, Owner(i)) EXCEPT !.on[i] = FALSE]

process_running(w, o) == \E n \in DOMAIN w.runq : w.runq[n] = o

process_add(w, o) ==
    IF process_running(w, o) THEN w
    ELSE [ref_get(w, o) EXCEPT !.runq = Append(@, o)]

process_del_kept(w, o) ==          \* mutant: the queue's reference is kept
    [w EXCEPT !.runq = SelectSeq(@, LAMBDA p : p # o)]
process_del(w, o) ==
    IF process_running(w, o)
    THEN ref_put([w EXCEPT !.runq = SelectSeq(@, LAMBDA p : p # o)], o)
    ELSE Use(w, o)

Do(w, calls) == [w EXCEPT !.stack = calls \o @]

\* Closing reaches the destination while the interface itself no longer listens.
intf_shutdown(w, i, rc) ==
    Do(intf_nullify(w, i), << <<"intf_close", i, rc>>, <<"intf_unplug", i>> >>)

\* The descriptor is restored once the interface has been shut down.
intf_restart(w, i, rc) ==
    Do(w, << <<"intf_shutdown", i, rc>>, <<"intf_restored", i, w.on[i]>> >>)
intf_restored(w, i, on) == [Use(w, Owner(i)) EXCEPT !.on[i] = on]

=============================================================================
