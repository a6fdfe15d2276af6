---------------------------- MODULE AtomicStore ----------------------------
(***************************************************************************)
(* What callers of an object store may rely on, whatever sequence of reads *)
(* and conditional writes a call is made of: a call that succeeds took     *)
(* effect once, at one moment between its start and its end; a call that   *)
(* fails takes effect at most once, by then or, where the caller does not  *)
(* wait for the end, later; and nothing else changes an object, except     *)
(* that one that is leaving goes away at some time.  The project's         *)
(* procedures that write objects are shown to implement it.                *)
(***************************************************************************)
CONSTANTS Processes, Keys, Values,
          Tokens,    \* to tell late calls apart; none if callers always wait
          Nothing,   \* no object under this key
          NoCall     \* the process is not in a call

VARIABLES
    stored,   \* stored[k]: the value of object k
    leaving,  \* the keys of objects that are deleted but not gone
    call,     \* call[p]: the call of process p
    answer,   \* answer[p]: "pending" during a call, then "ok" or "error"
    late      \* calls that were given up and may still take effect

vars == <<stored, leaving, call, answer, late>>

\* "create" wants no object, "put" takes any, "remove" wants one, "clear" is
\* content without one, and "other" has no effect and does not succeed.
Ops == {"create", "put", "remove", "clear", "other"}
Calls == [op : Ops, key : Keys, value : Values \cup {Nothing}]

Init ==
    /\ stored = [k \in Keys |-> Nothing]
    /\ leaving = {}
    /\ call = [p \in Processes |-> NoCall]
    /\ answer = [p \in Processes |-> "idle"]
    /\ late = {}

Begin(p) ==
    /\ answer[p] # "pending"
    /\ answer' = [answer EXCEPT ![p] = "pending"]
    /\ \E c \in Calls : call' = [call EXCEPT ![p] = c]
    /\ UNCHANGED <<stored, leaving, late>>

Gone(k) ==
    /\ stored' = [stored EXCEPT ![k] = Nothing]
    /\ leaving' = leaving \ {k}

Effect(c) ==
    \/ /\ c.op = "put" \/ (c.op = "create" /\ stored[c.key] = Nothing)
       /\ stored' = [stored EXCEPT ![c.key] = c.value]
       /\ UNCHANGED leaving
    \/ /\ c.op \in {"remove", "clear"}
       /\ stored[c.key] # Nothing
       /\ Gone(c.key) \/ (UNCHANGED stored /\ leaving' = leaving \cup {c.key})
    \/ /\ c.op = "clear"
       /\ stored[c.key] = Nothing
       /\ UNCHANGED <<stored, leaving>>

End(p, a) ==
    /\ call' = [call EXCEPT ![p] = NoCall]
    /\ answer' = [answer EXCEPT ![p] = a]

Succeed(p) ==
    /\ answer[p] = "pending"
    /\ Effect(call[p])
    /\ End(p, "ok")
    /\ UNCHANGED late

Fail(p) ==
    /\ answer[p] = "pending"
    /\ \/ Effect(call[p]) /\ UNCHANGED late
       \/ UNCHANGED <<stored, leaving, late>>
       \/ /\ \E t \in Tokens : late' = late \cup {<<t, call[p]>>}
          /\ UNCHANGED <<stored, leaving>>
    /\ End(p, "error")

\* Late calls take effect, or come to nothing.
Straggle ==
    /\ \E gone \in SUBSET late :
          /\ late' = late \ gone
          /\ \/ UNCHANGED <<stored, leaving>>
             \/ \E t \in gone : Effect(t[2])
    /\ UNCHANGED <<call, answer>>

Expire(k) == k \in leaving /\ Gone(k) /\ UNCHANGED <<call, answer, late>>

Next ==
    \/ \E p \in Processes : Begin(p) \/ Succeed(p) \/ Fail(p)
    \/ Straggle
    \/ \E k \in Keys : Expire(k)

Spec == Init /\ [][Next]_vars

=============================================================================
