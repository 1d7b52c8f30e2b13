------------------------------ MODULE SegTable ------------------------------
(***************************************************************************)
(* What the address hash map of interc/ldlib.c promises to the hooks that  *)
(* use it: a table of segments in which recording and removing an address  *)
(* happen at one instant between the call and the return, as long as no    *)
(* call tears the table under another one.                                 *)
(***************************************************************************)
EXTENDS Naturals

CONSTANTS
  Threads, Addrs, Sizes,
  Idle              \* no call of the table is pending in the thread

VARIABLES
  segs,             \* the recorded segments, [addr |-> , size |-> ]
  call,             \* the call pending in each thread, or Idle
  ret,              \* what the last removal told each thread, 0 for nothing
  torn              \* has a call written over what another one goes by?

vars == <<segs, call, ret, torn>>

Segments == [addr : Addrs, size : Sizes]
Calls == [kind : {"record"}, seg : Segments] \cup [kind : {"remove"}, addr : Addrs]

SegsAt(a) == {s \in segs : s.addr = a}

Init ==
  /\ segs = {}
  /\ call = [t \in Threads |-> Idle]
  /\ ret = [t \in Threads |-> 0]
  /\ torn = FALSE

(* A thread records a block it has just been given: no segment has its     *)
(* address, recorded or about to be.                                       *)
BeginRecord(t, s) ==
  /\ call[t] = Idle
  /\ SegsAt(s.addr) = {}
  /\ \A u \in Threads : call[u] # Idle /\ call[u].kind = "record"
                        => call[u].seg.addr # s.addr
  /\ call' = [call EXCEPT ![t] = [kind |-> "record", seg |-> s]]
  /\ UNCHANGED <<segs, ret>>

Record(t) ==
  /\ call[t] # Idle /\ call[t].kind = "record"
  /\ segs' = segs \cup {call[t].seg}
  /\ call' = [call EXCEPT ![t] = Idle]
  /\ UNCHANGED ret

(* There is no room for the segment: it goes unrecorded, and t is not told. *)
Drop(t) ==
  /\ call[t] # Idle /\ call[t].kind = "record"
  /\ call' = [call EXCEPT ![t] = Idle]
  /\ UNCHANGED <<segs, ret>>

BeginRemove(t, a) ==
  /\ call[t] = Idle
  /\ call' = [call EXCEPT ![t] = [kind |-> "remove", addr |-> a]]
  /\ UNCHANGED <<segs, ret>>

(* The answer is the size of the segment at the address, exactly when      *)
(* there is one.                                                           *)
Remove(t) ==
  /\ call[t] # Idle /\ call[t].kind = "remove"
  /\ \/ \E s \in SegsAt(call[t].addr) :
          /\ segs' = segs \ {s}
          /\ ret' = [ret EXCEPT ![t] = s.size]
     \/ /\ SegsAt(call[t].addr) = {}
        /\ UNCHANGED <<segs, ret>>
  /\ call' = [call EXCEPT ![t] = Idle]

(* The hook that asked returns. *)
Forget(t) ==
  /\ call[t] = Idle
  /\ ret' = [ret EXCEPT ![t] = 0]
  /\ UNCHANGED <<segs, call>>

Operate ==
  \E t \in Threads :
    \/ \E s \in Segments : BeginRecord(t, s)
    \/ Record(t)
    \/ Drop(t)
    \/ \E a \in Addrs : BeginRemove(t, a)
    \/ Remove(t)
    \/ Forget(t)

(* Nothing is promised of a torn table. *)
Tear == torn' = TRUE

Next == (Operate /\ UNCHANGED torn) \/ Tear

Spec == Init /\ [][Next]_vars
=============================================================================
