--------------------------- MODULE ProductStore ---------------------------
(***************************************************************************)
(* What sfts_free (libp2sc/p2sc_fits.c) promises to the processes which    *)
(* commit FITS products into one directory, without any of its steps: a    *)
(* name is bound to the data of one product and keeps that binding, and a  *)
(* process that is given a name back is given one bound to its own data.   *)
(***************************************************************************)

CONSTANTS Proc,     \* the committing processes
          Name,     \* the file names
          Payload,  \* the data of the products
          None      \* not a process, a name or data

VARIABLES bound,    \* bound[n]: the data filed under name n, or None
          result,   \* result[p]: Pending, Failed, or Returned(name)
          data      \* data[p]: the data p commits

store == <<bound, result, data>>

Pending == <<"pending">>
Failed == <<"failed">>
Returned(n) == <<"returned", n>>

StoreInit ==
    /\ bound = [n \in Name |-> None]
    /\ result = [p \in Proc |-> Pending]
    /\ data \in [Proc -> Payload]

(* A free name is taken for the data of p.                                 *)
Bind(p, n) ==
    /\ result[p] = Pending
    /\ bound[n] = None
    /\ bound' = [bound EXCEPT ![n] = data[p]]
    /\ UNCHANGED <<result, data>>

(* p is told that its data is filed under n, by itself or by another.      *)
Return(p, n) ==
    /\ result[p] = Pending
    /\ bound[n] = data[p]
    /\ result' = [result EXCEPT ![p] = Returned(n)]
    /\ UNCHANGED <<bound, data>>

(* p gives up; the names it took stay taken.                               *)
Fail(p) ==
    /\ result[p] = Pending
    /\ result' = [result EXCEPT ![p] = Failed]
    /\ UNCHANGED <<bound, data>>

StoreNext ==
    \E p \in Proc : Fail(p) \/ \E n \in Name : Bind(p, n) \/ Return(p, n)

StoreSpec == StoreInit /\ [][StoreNext]_store

===========================================================================
