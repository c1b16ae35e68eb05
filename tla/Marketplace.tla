---------------------------- MODULE Marketplace -----------------------------
(***************************************************************************)
(* What HelpMi promises its users about a task, whatever requests, cron    *)
(* jobs, webhooks and crashes interleave: it is announced once and only    *)
(* when it has been paid for, one doer gets it, that doer is credited once,*)
(* and the payment is paid back at most once.                              *)
(***************************************************************************)
EXTENDS Integers

CONSTANTS Tasks, Users, Nobody

VARIABLES
    funded,     \* the tasks whose payment has been recorded
    posts,      \* how often a task has been announced
    worker,     \* the doer of a task
    credited,   \* the tasks whose doer has been credited
    credits,    \* how many jobs a user has been credited with
    returned    \* the tasks whose payment went back to the poster

promise == <<funded, posts, worker, credited, credits, returned>>

MarketInit ==
    /\ funded = {} /\ credited = {} /\ returned = {}
    /\ posts = [t \in Tasks |-> 0]
    /\ worker = [t \in Tasks |-> Nobody]
    /\ credits = [u \in Users |-> 0]

Fund(t) ==
    /\ t \notin funded
    /\ funded' = funded \cup {t}
    /\ UNCHANGED <<posts, worker, credited, credits, returned>>

Post(t) ==
    /\ t \in funded
    /\ posts[t] = 0
    /\ posts' = [posts EXCEPT ![t] = 1]
    /\ UNCHANGED <<funded, worker, credited, credits, returned>>

Hire(t, u) ==
    /\ t \in funded
    /\ worker[t] = Nobody
    /\ worker' = [worker EXCEPT ![t] = u]
    /\ UNCHANGED <<funded, posts, credited, credits, returned>>

Credit(t) ==
    /\ t \notin credited
    /\ worker[t] # Nobody
    /\ credited' = credited \cup {t}
    /\ credits' = [credits EXCEPT ![worker[t]] = @ + 1]
    /\ UNCHANGED <<funded, posts, worker, returned>>

GiveBack(t) ==
    /\ t \in funded \ returned
    /\ returned' = returned \cup {t}
    /\ UNCHANGED <<funded, posts, worker, credited, credits>>

MarketNext ==
    \E t \in Tasks :
        \/ Fund(t) \/ Post(t) \/ Credit(t) \/ GiveBack(t)
        \/ \E u \in Users : Hire(t, u)

MarketSpec == MarketInit /\ [][MarketNext]_promise
=============================================================================
