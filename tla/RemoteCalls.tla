---------------------------- MODULE RemoteCalls ----------------------------
(***************************************************************************)
(* What the hub promises to whoever calls an agent: a call that has been   *)
(* sent is answered at most as often as it asks for, by the answers to     *)
(* that very call, in the order in which the agent gave them and without a *)
(* gap; its last answer ends it, and one that has ended, for whatever      *)
(* reason, is handed nothing more.  AgentLink shows how the hub reaches    *)
(* this with two maps, a reader and channels under locks of their own.     *)
(***************************************************************************)
EXTENDS Naturals, Sequences

CONSTANTS Calls,  \* calls of the hub's tasks
          Limit   \* Limit[c]: how many answers c asks for

VARIABLES status,    \* status[c]: "idle", "open" or "over"
          requested, \* calls that have been sent to the agent
          sent,      \* sent[c]: answers the agent has given
          taken      \* taken[c]: those the caller has got

vars == <<status, requested, sent, taken>>

Init ==
    /\ status = [c \in Calls |-> "idle"]
    /\ requested = {}
    /\ sent = [c \in Calls |-> 0]
    /\ taken = [c \in Calls |-> <<>>]

Begin(c) ==
    /\ status[c] = "idle"
    /\ status' = [status EXCEPT ![c] = "open"]
    /\ UNCHANGED <<requested, sent, taken>>

(* A call is sent once. *)
Request(c) ==
    /\ status[c] = "open" /\ c \notin requested
    /\ requested' = requested \cup {c}
    /\ UNCHANGED <<status, sent, taken>>

(* The agent answers what it was asked, also when nobody waits any more. *)
Answer(c) ==
    /\ c \in requested /\ sent[c] < Limit[c]
    /\ sent' = [sent EXCEPT ![c] = @ + 1]
    /\ UNCHANGED <<status, requested, taken>>

(* The next answer; the last one ends the call. *)
Take(c) ==
    /\ status[c] = "open" /\ Len(taken[c]) < sent[c]
    /\ taken' = [taken EXCEPT ![c] = Append(taken[c], Len(taken[c]) + 1)]
    /\ IF Len(taken[c]) + 1 = Limit[c]
       THEN status' = [status EXCEPT ![c] = "over"]
       ELSE UNCHANGED status
    /\ UNCHANGED <<requested, sent>>

(* A timeout, an error, the end of the session, a caller that goes away. *)
End(c) ==
    /\ status[c] = "open"
    /\ status' = [status EXCEPT ![c] = "over"]
    /\ UNCHANGED <<requested, sent, taken>>

Next == \E c \in Calls : Begin(c) \/ Request(c) \/ Answer(c) \/ Take(c) \/ End(c)

Spec == Init /\ [][Next]_vars
=============================================================================
