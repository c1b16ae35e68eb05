------------------------------ MODULE Messages ------------------------------
(***************************************************************************)
(* The chat of a task: MessagesService.                                    *)
(***************************************************************************)
EXTENDS Directory

Closed(t) == task[t].status \in {"COMPLETED", "CANCELLED"}

\* The counterpart is taken from the task as it was read: while there is no
\* doer, nobody will be notified.
SendMessage(p, t, u) ==
    /\ u \in Participants(t)
    /\ ~Closed(t)
    /\ Len(messages) < MaxMessages
    /\ LET recipient == IF u = PosterOf[t] THEN task[t].doer ELSE PosterOf[t]
       IN Begin(p, "insertMessage", u, t, recipient, "NONE")
    /\ UNCHANGED <<task, profile, reviews, ratings, messages, notices, shown, disturbed>>

\* sendMessage that emits without asking for a recipient (mutant).
InsertMessageToNobody(p) ==
    /\ At(p, "insertMessage")
    /\ messages' = Append(messages,
         [task |-> req[p].task, sender |-> req[p].user, read |-> FALSE])
    /\ Notify("NEW_MESSAGE", req[p].by, req[p].user, req[p].task, Len(messages) + 1)
    /\ Finish(p)
    /\ UNCHANGED <<task, profile, reviews, ratings, shown, disturbed>>

InsertMessage(p) ==
    /\ At(p, "insertMessage")
    /\ messages' = Append(messages,
         [task |-> req[p].task, sender |-> req[p].user, read |-> FALSE])
    /\ IF req[p].by = NoUser THEN UNCHANGED notices
       ELSE Notify("NEW_MESSAGE", req[p].by, req[p].user, req[p].task, Len(messages) + 1)
    /\ Finish(p)
    /\ UNCHANGED <<task, profile, reviews, ratings, shown, disturbed>>

\* updateMany without the condition on the sender (mutant).
GetMessagesMarkAll(p, t, u) ==
    /\ u \in Participants(t)
    /\ Begin(p, "list", u, t, NoUser, "NONE")
    /\ messages' = [i \in DOMAIN messages |->
         IF messages[i].task = t THEN [messages[i] EXCEPT !.read = TRUE] ELSE messages[i]]
    /\ UNCHANGED <<task, profile, reviews, ratings, notices, shown, disturbed>>

\* getMessages: what the other one sent is marked read, then the thread is
\* listed.  A participant stays one, so the check and the marking are one step.
GetMessages(p, t, u) ==
    /\ u \in Participants(t)
    /\ Begin(p, "list", u, t, NoUser, "NONE")
    /\ messages' = [i \in DOMAIN messages |->
         IF ForReader(u, t, i) THEN [messages[i] EXCEPT !.read = TRUE] ELSE messages[i]]
    /\ UNCHANGED <<task, profile, reviews, ratings, notices, shown, disturbed>>

ListThread(p) ==
    /\ At(p, "list")
    /\ shown' = shown \cup Listed(p)
    /\ Finish(p)
    /\ UNCHANGED <<task, profile, reviews, ratings, messages, notices, disturbed>>

-----------------------------------------------------------------------------
MessageRequest(p) ==
    \E u \in Users, t \in Tasks : SendMessage(p, t, u) \/ GetMessages(p, t, u)

MessageStep(p) == InsertMessage(p) \/ ListThread(p)
=============================================================================
