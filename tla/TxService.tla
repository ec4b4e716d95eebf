----------------------------- MODULE TxService -----------------------------
(***************************************************************************)
(* What the relayers rely on when they hand a transaction to a sender: the *)
(* chain settles every nonce once, for one of the contexts that were sent  *)
(* under it; the sender tells the relayer of a nonce at most once, after   *)
(* it is settled and with the chain's verdict.  A restart loses what was   *)
(* told and not taken.                                                     *)
(***************************************************************************)
EXTENDS Integers, Sequences

CONSTANTS Contexts, MaxNonce

Nonces == 0 .. MaxNonce - 1

VARIABLES
    sent,      \* pairs <<context, nonce>>
    settled,   \* nonce n is settled by settled[n + 1]
    told,      \* nonces the relayer was told of
    inbox      \* confirmations the relayer has not taken yet

serviceVars == <<sent, settled, told, inbox>>

ServiceInit ==
    /\ sent = {}
    /\ settled = <<>>
    /\ told = {}
    /\ inbox = <<>>

Submit(c, n) ==
    /\ n \notin 0 .. Len(settled) - 1
    /\ sent' = sent \cup {<<c, n>>}
    /\ UNCHANGED <<settled, told, inbox>>

Settle(c, ok) ==
    /\ <<c, Len(settled)>> \in sent
    /\ settled' = Append(settled, [ctx |-> c, ok |-> ok])
    /\ UNCHANGED <<sent, told, inbox>>

Tell(n) ==
    /\ n \in 0 .. Len(settled) - 1
    /\ n \notin told
    /\ told' = told \cup {n}
    /\ inbox' = Append(inbox, settled[n + 1])
    /\ UNCHANGED <<sent, settled>>

Take ==
    /\ inbox # <<>>
    /\ inbox' = Tail(inbox)
    /\ UNCHANGED <<sent, settled, told>>

Forget ==
    /\ inbox' = <<>>
    /\ UNCHANGED <<sent, settled, told>>

ServiceNext ==
    \/ \E c \in Contexts, n \in Nonces : Submit(c, n)
    \/ \E c \in Contexts, ok \in BOOLEAN : Settle(c, ok)
    \/ \E n \in Nonces : Tell(n)
    \/ Take
    \/ Forget

Spec == ServiceInit /\ [][ServiceNext]_serviceVars

=============================================================================
