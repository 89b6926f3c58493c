------------------------------- MODULE LeaseLock -------------------------------
(***************************************************************************)
(* What a lock kept as an expiring key promises, without the JVMs, the     *)
(* connection calls and the value map that implement it: a lease is granted *)
(* only to a holder that asks for a free key, under a token never granted  *)
(* before; a request to end a lease ends none but one of its own client;    *)
(* nothing else but the server ends a lease.                              *)
(* DistributedLock implements this specification.                          *)
(***************************************************************************)
EXTENDS Naturals

CONSTANTS
  Keys,        \* names of the locks
  Holders,     \* whoever asks for a lease
  Clients,     \* groups of holders that share what they know of a lease
  ClientOf,    \* the client each holder belongs to
  NoLease      \* the value of a free key

VARIABLES
  lease,       \* the token under which each key is leased, or NoLease
  last,        \* the serial number of the newest token of each holder
  asked        \* what each holder asks the server: a lease of a key, or the end of one

llvars == <<lease, last, asked>>

Nothing == <<>>

Init ==
  /\ lease = [k \in Keys |-> NoLease]
  /\ last = [h \in Holders |-> 0]
  /\ asked = [h \in Holders |-> Nothing]

\* h asks for k under a token it has never used.
Ask(h, k) ==
  /\ asked[h] = Nothing
  /\ asked' = [asked EXCEPT ![h] = <<"lease", k>>]
  /\ last' = [last EXCEPT ![h] = @ + 1]
  /\ UNCHANGED lease

\* h is given the key it asked for, if it is free.
Grant(h, k) ==
  /\ asked[h] = <<"lease", k>>
  /\ lease[k] = NoLease
  /\ lease' = [lease EXCEPT ![k] = <<h, last[h]>>]
  /\ asked' = [asked EXCEPT ![h] = Nothing]
  /\ UNCHANGED last

\* h asks for the end of its client's lease of k.
AskEnd(h, k) ==
  /\ asked[h] = Nothing
  /\ asked' = [asked EXCEPT ![h] = <<"end", k>>]
  /\ UNCHANGED <<lease, last>>

\* The server ends a lease when a holder of the client that was given it asks for that.
Release(h, k) ==
  /\ asked[h] = <<"end", k>>
  /\ lease[k] # NoLease
  /\ ClientOf[lease[k][1]] = ClientOf[h]
  /\ lease' = [lease EXCEPT ![k] = NoLease]
  /\ asked' = [asked EXCEPT ![h] = Nothing]
  /\ UNCHANGED last

\* What the holders in H asked for is refused, lost or given up; no lease changes.
Void(H) ==
  /\ asked' = [h \in Holders |-> IF h \in H THEN Nothing ELSE asked[h]]
  /\ UNCHANGED <<lease, last>>

\* The server ends the leases of the keys in K by itself; no request is answered by that.
Lapse(K) ==
  /\ lease' = [k \in Keys |-> IF k \in K THEN NoLease ELSE lease[k]]
  /\ UNCHANGED <<last, asked>>

Next ==
  \/ \E h \in Holders, k \in Keys :
       Ask(h, k) \/ Grant(h, k) \/ AskEnd(h, k) \/ Release(h, k)
  \/ \E H \in SUBSET Holders : Void(H)
  \/ \E K \in SUBSET Keys : Lapse(K)

Spec == Init /\ [][Next]_llvars
================================================================================
