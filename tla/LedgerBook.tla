----------------------------- MODULE LedgerBook -----------------------------
(***************************************************************************)
(* What the student ledger promises (the abstract specification of        *)
(* Ledger): a transaction is opened, then settled or voided, or posted at  *)
(* once; settling it changes the account's balance and, when it has journal *)
(* lines and their accounts are open, writes them in the same step; a       *)
(* settled transaction is settled for good and never journaled later.      *)
(***************************************************************************)
EXTENDS Integers, Functions

CONSTANTS Txns, Accounts, AccountOf, Signed, Codes, LinesOf

VARIABLES
    state,     \* state[t]: "none", "open", "settled" or "void"
    owed,      \* owed[a]: the balance of account a
    entries,   \* entries[t]: how often t was written to the journal
    shut       \* accounts of the chart that are closed

Settled(a) == {t \in Txns : AccountOf[t] = a /\ state[t] = "settled"}

Total(S) == SumFunctionOnSet(Signed, S)

BookInit ==
    /\ state = [t \in Txns |-> "none"]
    /\ owed = [a \in Accounts |-> 0]
    /\ entries = [t \in Txns |-> 0]
    /\ shut = {}

Open(t) ==
    /\ state[t] = "none"
    /\ state' = [state EXCEPT ![t] = "open"]
    /\ UNCHANGED <<owed, entries, shut>>

Void(t) ==
    /\ state[t] = "open"
    /\ state' = [state EXCEPT ![t] = "void"]
    /\ UNCHANGED <<owed, entries, shut>>

Settle(t) ==
    /\ state[t] \in {"none", "open"}
    /\ state' = [state EXCEPT ![t] = "settled"]
    /\ owed' = [owed EXCEPT ![AccountOf[t]] = Total(Settled(AccountOf[t]) \cup {t})]
    /\ entries' = IF LinesOf[t] # {} /\ LinesOf[t] \cap shut = {}
                  THEN [entries EXCEPT ![t] = 1] ELSE entries
    /\ UNCHANGED shut

Switch(c) ==
    /\ shut' = IF c \in shut THEN shut \ {c} ELSE shut \cup {c}
    /\ UNCHANGED <<state, owed, entries>>

BookNext ==
    \/ \E t \in Txns : Open(t) \/ Void(t) \/ Settle(t)
    \/ \E c \in Codes : Switch(c)

BookSpec == BookInit /\ [][BookNext]_<<state, owed, entries, shut>>
=============================================================================
