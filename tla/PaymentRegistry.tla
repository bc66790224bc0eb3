-------------------------- MODULE PaymentRegistry --------------------------
(***************************************************************************)
(* What creating payments promises the merchant and the customer, without  *)
(* transactions, locks, retries and crashes: a payment comes into being    *)
(* whole, at most once per ident, with a token of its own; an answer tells *)
(* the truth about it; a token that was used or has expired is gone.       *)
(***************************************************************************)
CONSTANTS Request,   \* calls of InitPayment
          Ident,     \* the merchant's names for payments
          PaymentId, \* values of payment.id
          TokenName  \* values PaymentToken.GenerateToken can draw

VARIABLES payments,  \* the payments there are, [id, ident, configured]
          tokens,    \* the tokens that can be redeemed, [token, id]
          answer     \* answer[r]: what the merchant was told

vars == <<payments, tokens, answer>>

None == [kind |-> "none"]
Confirmation(p, t) == [kind |-> "success", id |-> p.id, token |-> t]

Init ==
    /\ payments = {}
    /\ tokens = {}
    /\ answer = [r \in Request |-> None]

\* A payment with its configuration and a token nobody else has.
Register ==
    /\ \E id \in PaymentId, ident \in Ident, t \in TokenName :
          /\ \A p \in payments : p.id # id /\ p.ident # ident
          /\ \A u \in tokens : u.token # t
          /\ payments' = payments \cup {[id |-> id, ident |-> ident, configured |-> TRUE]}
          /\ tokens' = tokens \cup {[token |-> t, id |-> id]}
    /\ UNCHANGED answer

\* The payment is there, the token is its own if it is still there, and nobody
\* else was told so.
Confirm(r) ==
    /\ answer[r] = None
    /\ \E p \in payments, t \in TokenName :
          /\ \A u \in tokens : u.token = t => u.id = p.id
          /\ \A o \in Request : answer[o].kind = "success" => answer[o].id # p.id
          /\ answer' = [answer EXCEPT ![r] = Confirmation(p, t)]
    /\ UNCHANGED <<payments, tokens>>

\* The ident is taken.
Conflict(r) ==
    /\ answer[r] = None
    /\ \E p \in payments : answer' = [answer EXCEPT ![r] = [kind |-> "conflict", ident |-> p.ident]]
    /\ UNCHANGED <<payments, tokens>>

\* Any other error says nothing.
Error(r) ==
    /\ answer[r] = None
    /\ answer' = [answer EXCEPT ![r] = [kind |-> "error"]]
    /\ UNCHANGED <<payments, tokens>>

\* A token was redeemed, or is too old.
Consume(u) ==
    /\ tokens' = tokens \ {u}
    /\ UNCHANGED <<payments, answer>>

Next ==
    \/ Register
    \/ \E r \in Request : Confirm(r) \/ Conflict(r) \/ Error(r)
    \/ \E u \in tokens : Consume(u)

Spec == Init /\ [][Next]_vars
=============================================================================
