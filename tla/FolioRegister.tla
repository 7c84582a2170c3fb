---------------------------- MODULE FolioRegister ----------------------------
(***************************************************************************)
(* What a company expects of folio numbers, without transactions, retries  *)
(* or indexes: a register per company to which an order is appended with   *)
(* the next number, at most once per request, in one step.                 *)
(***************************************************************************)
EXTENDS Naturals, Sequences

CONSTANTS Companies, Requests, CompanyOf

VARIABLE register

Entry == [id : Requests, number : Nat]

Registered(r) ==
  \E i \in 1..Len(register[CompanyOf[r]]) : register[CompanyOf[r]][i].id = r

Init == register = [c \in Companies |-> <<>>]

Assign(r) ==
  /\ ~Registered(r)
  /\ register' = [register EXCEPT ![CompanyOf[r]] =
                    Append(@, [id |-> r, number |-> Len(@) + 1])]

Next == \E r \in Requests : Assign(r)

Spec == Init /\ [][Next]_register
==============================================================================
