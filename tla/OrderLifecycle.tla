--------------------------- MODULE OrderLifecycle ---------------------------
(***************************************************************************)
(* What the paper broker promises about one order, said without prices,    *)
(* money or time.  An order is placed once, may be armed (a stop-limit     *)
(* whose stop level was crossed), and leaves the book exactly once: by a   *)
(* fill, a cancellation or an expiry.  Only a fill creates exposure, and   *)
(* exposure only shrinks after it.  PaperBroker implements this            *)
(* specification, see the refinement mapping there.                        *)
(***************************************************************************)
EXTENDS Integers

CONSTANTS
    OrderIds,        \* the identities orders can have
    MaxVolume        \* the largest order, in lots

VARIABLES
    status,          \* status[o]: where order o stands
    lots             \* lots[o]: exposure the order opened and still has open

vars == <<status, lots>>

Working  == {"pending", "armed"}
Status   == {"unborn", "filled", "cancelled", "expired"} \cup Working

TypeOK == /\ status \in [OrderIds -> Status]
          /\ lots \in [OrderIds -> 0..MaxVolume]

Init == /\ status = [o \in OrderIds |-> "unborn"]
        /\ lots = [o \in OrderIds |-> 0]

(* A new order rests in the book, possibly armed already. *)
Place(o) == /\ status[o] = "unborn"
            /\ \E s \in Working : status' = [status EXCEPT ![o] = s]
            /\ UNCHANGED lots

(* The stop level of a stop-limit order was crossed; nothing undoes it. *)
Arm(o) == /\ status[o] = "pending"
          /\ status' = [status EXCEPT ![o] = "armed"]
          /\ UNCHANGED lots

(* A market order fills as it is placed, a resting order fills later. *)
Fill(o) == /\ status[o] \in {"unborn"} \cup Working
           /\ status' = [status EXCEPT ![o] = "filled"]
           /\ \E n \in 1..MaxVolume : lots' = [lots EXCEPT ![o] = n]

(* Cancellation and expiry end a resting order and open nothing. *)
Withdraw(o) == /\ status[o] \in Working
               /\ \E s \in {"cancelled", "expired"} :
                     status' = [status EXCEPT ![o] = s]
               /\ UNCHANGED lots

(* A close, partial or full, takes exposure away from a filled order. *)
Reduce(o) == /\ status[o] = "filled"
             /\ \E n \in 0..(lots[o] - 1) : lots' = [lots EXCEPT ![o] = n]
             /\ UNCHANGED status

Next == \E o \in OrderIds :
           Place(o) \/ Arm(o) \/ Fill(o) \/ Withdraw(o) \/ Reduce(o)

Spec == Init /\ [][Next]_vars

-----------------------------------------------------------------------------
(* The same promise for one who looks at the book only now and then, as a  *)
(* caller does who learns what a call of the broker has done to several    *)
(* orders at once: what any number of steps may make of each of them.      *)

Entry(o) == [status |-> status[o], lots |-> lots[o]]

Reachable == [unborn    |-> Status,
              pending   |-> Status \ {"unborn"},
              armed     |-> Status \ {"unborn", "pending"},
              filled    |-> {"filled"},
              cancelled |-> {"cancelled"},
              expired   |-> {"expired"}]

Becomes(a, b) ==
    /\ b.status \in Reachable[a.status]
    /\ b.lots > a.lots => a.status # "filled" /\ b.status = "filled"

Call == TypeOK' /\ \A o \in OrderIds : Becomes(Entry(o), Entry(o)')

CallSpec == Init /\ [][Call]_vars
=============================================================================
