--------------------------- MODULE Conversations ---------------------------
(* One conversation: its row, the escalation tickets opened for it, the     *)
(* customer's messages while the assistant works on them, and the requests  *)
(* of the support members who assign, move and answer it.                   *)
(*                                                                          *)
(* Each statement commits on its own.  The texts, the timeline, handoff and *)
(* audit records and the events leave no trace here: nothing in the         *)
(* modelled code decides by them.                                           *)
EXTENDS Naturals, Sequences, FiniteSets

CONSTANTS Messages,    \* requests of the customer
          Agents,      \* support members, one request each at a time
          Admins,      \* those who may assign others
          MaxTickets,  \* bound on the escalation tickets
          MaxBusy,     \* bound on the requests under way at once
          None

ASSUME AdminAssumption == Admins \subseteq Agents
ASSUME NoneAssumption == None \notin Agents
ASSUME BoundAssumption == MaxTickets \in Nat /\ MaxBusy \in Nat

VARIABLES conv,     \* the conversations row: state and assigned agent
          tickets,  \* status of its escalation tickets, oldest first
          message,  \* what each request of the customer is doing
          agent     \* what each member's request is doing

vars == <<conv, tickets, message, agent>>

States == {"AI_ACTIVE", "NEEDS_HUMAN", "WAITING_FOR_AGENT", "AGENT_ACTIVE",
           "WAITING_FOR_CUSTOMER", "RESOLVED", "CLOSED"}
Transitions ==
  [AI_ACTIVE            |-> {"NEEDS_HUMAN", "WAITING_FOR_AGENT", "CLOSED"},
   NEEDS_HUMAN          |-> {"WAITING_FOR_AGENT", "CLOSED"},
   WAITING_FOR_AGENT    |-> {"AGENT_ACTIVE", "CLOSED"},
   AGENT_ACTIVE         |-> {"WAITING_FOR_CUSTOMER", "RESOLVED", "WAITING_FOR_AGENT"},
   WAITING_FOR_CUSTOMER |-> {"AGENT_ACTIVE", "RESOLVED", "CLOSED"},
   RESOLVED             |-> {"AGENT_ACTIVE", "CLOSED"},
   CLOSED               |-> {"WAITING_FOR_AGENT"}]

Owners == Agents \cup {None}
NoRequest == [step |-> "idle", state |-> None, owner |-> None, to |-> None,
              reply |-> FALSE]

TypeOK ==
  /\ conv \in [state : States, owner : Owners]
  /\ tickets \in Seq({"open", "resolved"}) /\ Len(tickets) <= MaxTickets
  /\ message \in [Messages ->
       {"idle", "reopening_closed", "reopening_resolved", "thinking", "failed",
        "inserting_failed", "inserting", "waiting"}]
  /\ agent \in [Agents ->
       [step : {"idle", "taking", "assigning", "writing"},
        state : States \cup {None}, owner : Owners, to : Owners, reply : BOOLEAN]]

(* getOrCreateConversation                                                   *)
Init ==
  /\ conv = [state |-> "AI_ACTIVE", owner |-> None]
  /\ tickets = <<>>
  /\ message = [m \in Messages |-> "idle"]
  /\ agent = [a \in Agents |-> NoRequest]

-----------------------------------------------------------------------------
Room == Cardinality({m \in Messages : message[m] # "idle"})
          + Cardinality({a \in Agents : agent[a].step # "idle"}) < MaxBusy

Step(m, from, to) == message[m] = from /\ message' = [message EXCEPT ![m] = to]

(* processCustomerMessage reads the row once.  What it read decides whether  *)
(* the conversation is reopened, and whether the assistant thinks of an      *)
(* answer or the stored message waits for a human.                           *)
Receive(m) ==
  /\ Room
  /\ \/ conv.state = "CLOSED" /\ Step(m, "idle", "reopening_closed")
     \/ conv.state = "RESOLVED" /\ Step(m, "idle", "reopening_resolved")
     \/ conv.state \in {"AI_ACTIVE", "NEEDS_HUMAN"} /\ Step(m, "idle", "thinking")
  /\ UNCHANGED <<conv, tickets, agent>>

(* A reply reopens a finished conversation, by its id alone.                 *)
Reopen(m) ==
  /\ \/ /\ Step(m, "reopening_closed", "idle")
        /\ conv' = [conv EXCEPT !.state = "WAITING_FOR_AGENT"]
     \/ /\ Step(m, "reopening_resolved", "idle")
        /\ conv' = [conv EXCEPT !.state = "AGENT_ACTIVE"]
  /\ UNCHANGED <<tickets, agent>>

(* The assistant answers; or it fails, and the conversation waits for a      *)
(* human before the ticket is looked for.                                    *)
Answer(m) == Step(m, "thinking", "idle") /\ UNCHANGED <<conv, tickets, agent>>
Fail(m) ==
  /\ Step(m, "thinking", "failed")
  /\ conv' = [conv EXCEPT !.state = "WAITING_FOR_AGENT"]
  /\ UNCHANGED <<tickets, agent>>

(* getOrCreateEscalationTicket: the newest is taken if it is still open, and *)
(* else one is inserted unless the unique index finds an open one.  When the *)
(* assistant hands over, the conversation waits for a human only after it.   *)
Open(i) == tickets[i] = "open"
NewestIsOpen == tickets # <<>> /\ Open(Len(tickets))
LookUpTicket(m) ==
  /\ \/ NewestIsOpen /\ (Step(m, "failed", "idle") \/ Step(m, "thinking", "waiting"))
     \/ /\ ~NewestIsOpen
        /\ Step(m, "failed", "inserting_failed") \/ Step(m, "thinking", "inserting")
  /\ UNCHANGED <<conv, tickets, agent>>

AlwaysInserted == Append(tickets, "open")           \* defect: no unique index
Inserted ==
  IF \E i \in DOMAIN tickets : Open(i) THEN tickets ELSE Append(tickets, "open")
InsertTicket(m) ==
  /\ Step(m, "inserting_failed", "idle") \/ Step(m, "inserting", "waiting")
  /\ tickets' = Inserted
  /\ Len(tickets') <= MaxTickets
  /\ UNCHANGED <<conv, agent>>

Wait(m) ==
  /\ Step(m, "waiting", "idle")
  /\ conv' = [conv EXCEPT !.state = "WAITING_FOR_AGENT"]
  /\ UNCHANGED <<tickets, agent>>

(* The process dies.                                                         *)
Abandon(m) ==
  /\ message[m] # "idle"
  /\ message' = [message EXCEPT ![m] = "idle"]
  /\ UNCHANGED <<conv, tickets, agent>>

-----------------------------------------------------------------------------
(* assign reads the row, checks who may assign whom, and writes with the     *)
(* owner it read, but with the state it read as well.                        *)
MayAssign(a, to) ==
  a \in Admins \/ (conv.owner \in {None, a} /\ to \in {None, a})
ReadToAssign(a, to, reply) ==
  agent' = [agent EXCEPT ![a] = [step |-> "assigning", state |-> conv.state,
                                 owner |-> conv.owner, to |-> to, reply |-> reply]]

AskToAssign(a, to) ==
  /\ Room /\ agent[a].step = "idle"
  /\ MayAssign(a, to)
  /\ ReadToAssign(a, to, FALSE)
  /\ UNCHANGED <<conv, tickets, message>>

StillOwnedAnyway(a) == TRUE                                         \* defect
StillOwned(a) == conv.owner = agent[a].owner
AssignedUnchecked(s, to) ==                                         \* defect
  IF to # None THEN "assigned" ELSE s
AssignedState(s, to) ==
  IF to # None /\ s = "WAITING_FOR_AGENT" THEN "AGENT_ACTIVE" ELSE s
Assign(a) ==
  /\ agent[a].step = "assigning"
  /\ IF StillOwned(a)
     THEN /\ conv' = [state |-> AssignedState(agent[a].state, agent[a].to),
                      owner |-> agent[a].to]
          /\ agent' = [agent EXCEPT ![a] =
               IF agent[a].reply THEN [NoRequest EXCEPT !.step = "writing"]
                                 ELSE NoRequest]
     ELSE UNCHANGED conv /\ agent' = [agent EXCEPT ![a] = NoRequest]
  /\ UNCHANGED <<tickets, message>>

(* transition moves along the table, and only from the state it read: a      *)
(* request that read another state fails, and changes nothing.               *)
Moved(target) ==
  /\ target \in Transitions[conv.state]
  /\ ~(conv.state = "CLOSED" /\ target = "WAITING_FOR_AGENT")
  /\ conv' = [conv EXCEPT !.state = target]

Move(target) == Moved(target) /\ UNCHANGED <<tickets, message, agent>>

-----------------------------------------------------------------------------
(* sendAgentMessage: a waiting conversation is assigned first.               *)
Reply(a) ==
  /\ Room /\ agent[a].step = "idle"
  /\ \/ /\ conv.state = "WAITING_FOR_AGENT" /\ conv.owner \in {None, a}
        /\ agent' = [agent EXCEPT ![a] = [NoRequest EXCEPT !.step = "taking"]]
     \/ /\ conv.state = "AGENT_ACTIVE" /\ conv.owner = a
        /\ agent' = [agent EXCEPT ![a] = [NoRequest EXCEPT !.step = "writing"]]
  /\ UNCHANGED <<conv, tickets, message>>

Take(a) ==
  /\ agent[a].step = "taking"
  /\ IF conv.owner \in {None, a} THEN ReadToAssign(a, a, TRUE)
                                 ELSE agent' = [agent EXCEPT ![a] = NoRequest]
  /\ UNCHANGED <<conv, tickets, message>>

(* The message is stored, and then its conversation is moved on, unless that *)
(* fails.                                                                    *)
Finish(a) ==
  /\ agent[a].step = "writing"
  /\ Moved("WAITING_FOR_CUSTOMER")
  /\ agent' = [agent EXCEPT ![a] = NoRequest]
  /\ UNCHANGED <<tickets, message>>

(* A request fails, or its process dies.                                     *)
AgentFails(a) ==
  /\ agent[a].step # "idle"
  /\ agent' = [agent EXCEPT ![a] = NoRequest]
  /\ UNCHANGED <<conv, tickets, message>>

(* updateTicket: any status, as far as the unique index allows.              *)
UpdateTicket(i, status) ==
  /\ status = "open" => \A j \in DOMAIN tickets \ {i} : ~Open(j)
  /\ tickets' = [tickets EXCEPT ![i] = status]
  /\ UNCHANGED <<conv, message, agent>>

(* closeDue: the conversation has been resolved for long enough.             *)
AutoClose ==
  /\ conv.state = "RESOLVED"
  /\ conv' = [conv EXCEPT !.state = "CLOSED"]
  /\ UNCHANGED <<tickets, message, agent>>

(* requestDirectHandoff, a tool that somebody approved, names the owner.     *)
DirectHandoff(a) ==
  /\ conv' = [state |-> "WAITING_FOR_AGENT", owner |-> a]
  /\ UNCHANGED <<tickets, message, agent>>

-----------------------------------------------------------------------------
Next ==
  \/ \E m \in Messages :
       \/ Receive(m) \/ Reopen(m) \/ Answer(m) \/ Fail(m)
       \/ LookUpTicket(m) \/ InsertTicket(m) \/ Wait(m) \/ Abandon(m)
  \/ \E a \in Agents :
       \/ Assign(a) \/ Reply(a) \/ Take(a) \/ Finish(a)
       \/ AgentFails(a) \/ DirectHandoff(a)
       \/ \E to \in Owners : AskToAssign(a, to)
  \/ \E i \in DOMAIN tickets, status \in {"open", "resolved"} : UpdateTicket(i, status)
  \/ \E target \in States : Move(target)
  \/ AutoClose

Spec == Init /\ [][Next]_vars

-----------------------------------------------------------------------------
(* However many messages the assistant hands over at once, and however       *)
(* members reopen tickets, one escalation at a time is open.                 *)
OneOpenEscalation ==
  \A i, j \in DOMAIN tickets : Open(i) /\ Open(j) => i = j

(* A conversation is taken from its owner only by the owner, an              *)
(* administrator or an approved handoff, although each request checks the    *)
(* owner in one statement and writes in another.                             *)
NeverStolen ==
  [][conv.owner # None /\ conv'.owner # conv.owner =>
       \/ \E a \in Admins \cup {conv.owner} : agent[a].step = "assigning" /\ Assign(a)
       \/ \E a \in Agents : DirectHandoff(a)]_vars

(* A closed conversation is reopened by a customer's reply only (or by an    *)
(* approved handoff).                                                        *)
ReopenedByReplyOnly ==
  [][conv.state = "CLOSED" /\ conv'.state # "CLOSED" =>
       \/ \E m \in Messages : message[m] # "idle"
       \/ \E a \in Agents : DirectHandoff(a)]_vars
=============================================================================
