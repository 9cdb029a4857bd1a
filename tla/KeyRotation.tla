----------------------------- MODULE KeyRotation ------------------------------
(***************************************************************************)
(* The keys of the Gemini adapter (src/providers/gemini.ts, _call): calls  *)
(* that run at the same time share one cursor, try the next key on a rate  *)
(* limit and wait once all of them were tried.                             *)
(***************************************************************************)
EXTENDS Naturals, FiniteSets

CONSTANTS Calls,        \* the calls of one process
          NumKeys,      \* configured keys
          RL_MAX_RETRIES

VARIABLES
    _cursor,    \* the key after the last one that answered
    pc,         \* of each call: "idle", "asking", "waiting", "answered", "threw", "limited"
    round,      \* of each call: how often it has waited
    attempt,    \* of each call: keys tried in this round before the one being asked
    idx,        \* of each call: the key being asked
    tried,      \* of each call: the keys asked in this round
    overtaken   \* of each call: another call was answered during this round

keyVars == <<_cursor, pc, round, attempt, idx, tried, overtaken>>

Keys == 0..(NumKeys - 1)

TypeOK ==
    /\ _cursor \in Keys
    /\ pc \in [Calls -> {"idle", "asking", "waiting", "answered", "threw", "limited"}]
    /\ round \in [Calls -> 0..RL_MAX_RETRIES]
    /\ attempt \in [Calls -> Keys]
    /\ idx \in [Calls -> Keys]
    /\ tried \in [Calls -> SUBSET Keys]
    /\ overtaken \in [Calls -> BOOLEAN]

Init ==
    /\ _cursor = 0
    /\ pc = [c \in Calls |-> "idle"]
    /\ round = [c \in Calls |-> 0]
    /\ attempt = [c \in Calls |-> 0]
    /\ idx = [c \in Calls |-> 0]
    /\ tried = [c \in Calls |-> {}]
    /\ overtaken = [c \in Calls |-> FALSE]

\* The cursor is read again for every attempt.
KeyOf(i) == (_cursor + i) % NumKeys

Ask(c, i, before) ==
    /\ pc' = [pc EXCEPT ![c] = "asking"]
    /\ attempt' = [attempt EXCEPT ![c] = i]
    /\ idx' = [idx EXCEPT ![c] = KeyOf(i)]
    /\ tried' = [tried EXCEPT ![c] = before \cup {KeyOf(i)}]

\* Begin and, after the backoff, a round more.
AskFirst(c) ==
    /\ pc[c] \in {"idle", "waiting"}
    /\ Ask(c, 0, {})
    /\ round' = IF pc[c] = "waiting" THEN [round EXCEPT ![c] = @ + 1] ELSE round
    /\ overtaken' = [overtaken EXCEPT ![c] = FALSE]
    /\ UNCHANGED _cursor

Answered(c) ==
    /\ pc[c] = "asking"
    /\ pc' = [pc EXCEPT ![c] = "answered"]
    /\ _cursor' = (idx[c] + 1) % NumKeys
    /\ overtaken' = [d \in Calls |-> overtaken[d] \/ d # c]
    /\ UNCHANGED <<round, attempt, idx, tried>>

\* Any other error is the caller's at once.
Throws(c) ==
    /\ pc[c] = "asking"
    /\ pc' = [pc EXCEPT ![c] = "threw"]
    /\ UNCHANGED <<_cursor, round, attempt, idx, tried, overtaken>>

\* Mutation: the last key of a round is not asked.
RateLimitedOneShort(c) ==
    /\ pc[c] = "asking"
    /\ \/ /\ attempt[c] + 2 < NumKeys
          /\ Ask(c, attempt[c] + 1, tried[c])
       \/ /\ attempt[c] + 2 >= NumKeys
          /\ pc' = [pc EXCEPT ![c] = IF round[c] >= RL_MAX_RETRIES THEN "limited" ELSE "waiting"]
          /\ UNCHANGED <<attempt, idx, tried>>
    /\ UNCHANGED <<_cursor, round, overtaken>>

RateLimited(c) ==
    /\ pc[c] = "asking"
    /\ \/ /\ attempt[c] + 1 < NumKeys
          /\ Ask(c, attempt[c] + 1, tried[c])
       \/ /\ attempt[c] + 1 = NumKeys
          /\ pc' = [pc EXCEPT ![c] = IF round[c] >= RL_MAX_RETRIES THEN "limited" ELSE "waiting"]
          /\ UNCHANGED <<attempt, idx, tried>>
    /\ UNCHANGED <<_cursor, round, overtaken>>

Next == \E c \in Calls : AskFirst(c) \/ Answered(c) \/ Throws(c) \/ RateLimited(c)

Spec == Init /\ [][Next]_keyVars

-----------------------------------------------------------------------------
(* A call waits, or gives up, only once every key was rate-limited in the  *)
(* same round ("before falling back to a backoff wait once every key is    *)
(* rate-limited in the same round"): so far as no other call moved the     *)
(* cursor under it.                                                        *)
WaitsWhenAllAreLimited ==
    \A c \in Calls : pc[c] \in {"waiting", "limited"} =>
        tried[c] = Keys \/ overtaken[c]

\* The comment's own words, which calls that overlap break: one call that is answered
\* moves the cursor, and the other asks a key twice in a round and leaves one out.
EveryKeyBeforeWaiting ==
    \A c \in Calls : pc[c] \in {"waiting", "limited"} => tried[c] = Keys

-----------------------------------------------------------------------------
(* Why every key was asked: while nobody moves the cursor, the keys of a     *)
(* round are those at the offsets counted so far, and a call that is done    *)
(* with the round has counted all of them.                                   *)

Configured == NumKeys \in Nat \ {0} /\ RL_MAX_RETRIES \in Nat

InRound(c) == pc[c] \in {"asking", "waiting", "limited"}

RoundInv ==
    \A c \in Calls : InRound(c) =>
        /\ overtaken[c] \/ tried[c] = {KeyOf(i) : i \in 0..attempt[c]}
        /\ pc[c] = "asking" \/ attempt[c] = NumKeys - 1
        /\ pc[c] = "waiting" => round[c] < RL_MAX_RETRIES
=============================================================================
