---------------------------- MODULE HandleRegistry ----------------------------
(***************************************************************************)
(* What the object database of Nuqe promises a host, whatever requests it  *)
(* serves: object handles are issued once and mean the same object for the *)
(* rest of the program's life, and a path leads to one handle.  MtpStorage *)
(* is shown to implement this specification.                               *)
(***************************************************************************)
EXTENDS Naturals

CONSTANTS
  Storages,      (* the storages, each with its own names                   *)
  Root,          (* the handle of the root folder of every storage          *)
  RootName       (* and its name                                            *)

VARIABLES
  last,          (* the last handle issued                                  *)
  kinds,         (* [Storages -> map from handles to the kind of object]    *)
  names          (* [Storages -> map from paths to handles]                 *)

vars == <<last, kinds, names>>

Init ==
  /\ last = 0
  /\ kinds = [s \in Storages |-> [h \in {Root} |-> "dir"]]
  /\ names = [s \in Storages |-> [p \in {RootName} |-> Root]]

(* A handle counts as new in a step when the counter passes it there.       *)
New(h) == last < h /\ h <= last'

(* What becomes of the names of s: none is forgotten, and one that is given *)
(* or given again leads to a new object, each to its own.                   *)
Rebound(s) ==
  {p \in DOMAIN names'[s] : p \notin DOMAIN names[s] \/ names'[s][p] # names[s][p]}

NamesGrow(s) ==
  /\ DOMAIN names[s] \subseteq DOMAIN names'[s]
  /\ \A p \in Rebound(s) : New(names'[s][p])
  /\ \A p, q \in Rebound(s) : names'[s][p] = names'[s][q] => p = q

(* An object keeps its kind, and only a new handle gets an object.          *)
KindsGrow(s) ==
  /\ \A h \in DOMAIN kinds[s] :
       h \in DOMAIN kinds'[s] /\ kinds'[s][h] = kinds[s][h]
  /\ \A h \in DOMAIN kinds'[s] \ DOMAIN kinds[s] : New(h)

(* Handles are issued for objects of one storage, s.                        *)
Issue(s) ==
  /\ last' > last
  /\ NamesGrow(s)
  /\ KindsGrow(s)
  /\ \A t \in Storages \ {s} :
       /\ names'[t] = names[t]
       /\ kinds'[t] = kinds[t]

Next == \E s \in Storages : Issue(s)

Spec == Init /\ [][Next]_vars
===============================================================================
