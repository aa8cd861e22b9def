------------------------------ MODULE ChunkLog ------------------------------
(***************************************************************************)
(* What the container files of indicer promise to the code that reads      *)
(* chunks back, with no queue, no goroutines and no compression.           *)
(*                                                                         *)
(* A container is an append-only log: contents[i] is the set of            *)
(* <<offset, chunk>> pairs a reader finds in container i.  Whoever wrote a *)
(* chunk is told its address (an acknowledgement, kept in acked).  A       *)
(* container has a tenant, the store operation that opened it last.  Its   *)
(* log is emptied only when a new tenant takes the name over (TakeOver);   *)
(* a tenant that finds a log left behind keeps it, but can then no longer  *)
(* be trusted to know its own offsets (Adopt), and neither can a tenant    *)
(* whose write was cut short (Spoil).                                      *)
(***************************************************************************)
EXTENDS Integers

CONSTANTS Containers, Chunks

VARIABLES contents, acked, tenant, spoiled

vars == <<contents, acked, tenant, spoiled>>

Ack == [cont : Containers, off : Nat, chunk : Chunks, sess : Nat]

TypeOK ==
  /\ contents \in [Containers -> SUBSET (Nat \X Chunks)]
  /\ acked \subseteq Ack
  /\ tenant \in [Containers -> Nat]
  /\ spoiled \subseteq Containers

Init ==
  /\ contents = [i \in Containers |-> {}]
  /\ acked = {}
  /\ tenant = [i \in Containers |-> 0]
  /\ spoiled = {}

-----------------------------------------------------------------------------
(* A chunk is appended to container i: e is its <<offset, chunk>>.         *)
AppendChunk(i, e) ==
  /\ e \in Nat \X Chunks
  /\ contents' = [contents EXCEPT ![i] = @ \cup {e}]
  /\ UNCHANGED <<acked, tenant, spoiled>>

(* The address a is handed to the writer of the chunk: in a container that *)
(* is not spoiled, the chunk is there.                                     *)
Acknowledge(a) ==
  /\ a \in Ack
  /\ a.sess = tenant[a.cont]
  /\ a.cont \in spoiled \/ <<a.off, a.chunk>> \in contents[a.cont]
  /\ acked' = acked \cup {a}
  /\ UNCHANGED <<contents, tenant, spoiled>>

(* A later session finds no .blob under the name, and starts an empty one. *)
TakeOver(i, s) ==
  /\ s \in Nat /\ tenant[i] < s
  /\ tenant' = [tenant EXCEPT ![i] = s]
  /\ contents' = [contents EXCEPT ![i] = {}]
  /\ spoiled' = spoiled \ {i}
  /\ UNCHANGED acked

(* It finds a .blob and goes on with it.                                   *)
Adopt(i, s) ==
  /\ s \in Nat /\ tenant[i] < s
  /\ tenant' = [tenant EXCEPT ![i] = s]
  /\ spoiled' = spoiled \cup {i}
  /\ UNCHANGED <<contents, acked>>

(* A write is cut short.                                                   *)
Spoil(i) ==
  /\ spoiled' = spoiled \cup {i}
  /\ UNCHANGED <<contents, acked, tenant>>

(* The entry, the address and the tenant are taken from the next state,    *)
(* where they must be, so that TLC need not enumerate Nat to check a step. *)
Next ==
  \/ \E i \in Containers : \E e \in contents'[i] : AppendChunk(i, e)
  \/ \E a \in acked' : Acknowledge(a)
  \/ \E i \in Containers : TakeOver(i, tenant'[i]) \/ Adopt(i, tenant'[i])
  \/ \E i \in Containers : Spoil(i)

Spec == Init /\ [][Next]_vars

-----------------------------------------------------------------------------
Held(a) == <<a.off, a.chunk>> \in contents[a.cont]

(* An address handed out by the present tenant of an unspoiled container   *)
(* reads back the chunk it was handed out for.                             *)
TenantsChunksHeld ==
  \A a \in acked :
    a.sess = tenant[a.cont] /\ a.cont \notin spoiled => Held(a)
=============================================================================
