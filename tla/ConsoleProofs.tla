---------------------------- MODULE ConsoleProofs ----------------------------
(***************************************************************************)
(* Theorems about Console, for every number of jobs, every budget of       *)
(* clicks and any number of requests on their way.                         *)
(***************************************************************************)
EXTENDS Console, FiniteSetTheorems, WellFoundedInduction, TLAPS

-------------------------------------------------------------------------------
(* The inductive invariant of the dialog *)

JobLists == [Jobs -> Dialog!Statuses \cup {"none"}]
Kinds == {"status", "list", "detail", "submit", "cancel", "delete", "boards"}
Requests ==
    [kind: Kinds, about: Jobs \cup {None}, last: BOOLEAN, first: BOOLEAN, poll: BOOLEAN,
     submitted: BOOLEAN, done: BOOLEAN, answer: JobLists \cup Dialog!Copies \cup {None}]

\* A request that has been executed carries the answer its handler expects; a detail is
\* that of the job it was asked for.
Sound(r) ==
    /\ r.kind \in {"detail", "cancel", "delete"} => r.about \in Jobs
    /\ r.done /\ r.kind = "list" => r.answer \in JobLists
    /\ r.done /\ r.kind \in {"detail", "submit", "cancel"} => r.answer \in Dialog!Copies
    /\ r.done /\ r.kind = "detail" => r.answer.id = r.about
    /\ r.last \/ r.poll => r.kind = "detail"

\* At most one request for a detail still counts.
Queue(q) ==
    /\ q \in Seq(Requests)
    /\ \A i \in DOMAIN q : Sound(q[i])
    /\ \A i, m \in DOMAIN q : q[i].last /\ q[m].last => i = m

HasList(q) == \E i \in DOMAIN q : q[i].kind = "list"
HasPoll(q) == \E i \in DOMAIN q : q[i].kind \in {"status", "list"} \/ q[i].poll
HasDetail(q, j) == \E i \in DOMAIN q : q[i].last /\ q[i].about = j
NoDetail(q) == \A i \in DOMAIN q : ~q[i].last

DialogTyped ==
    /\ job \in [Jobs -> Dialog!Statuses \cup {"none", "gone"}]
    /\ open \in BOOLEAN /\ busy \in BOOLEAN /\ visible \in BOOLEAN
    /\ configured \in BOOLEAN /\ pollTimer \in BOOLEAN
    /\ jobs \in JobLists
    /\ selectedID \in Jobs \cup {None}
    /\ detail \in Dialog!Copies \cup {None} /\ rendered \in Dialog!Copies \cup {None}
    /\ Queue(requests)

\* Unless the list is on its way, the panel shows the selected job or waits for it, and
\* shows what the buttons act on or waits for a detail.
Selection ==
    ~HasList(requests) =>
        /\ (selectedID # None /\ \E j \in Jobs : jobs[j] # "none")
           => \/ HasDetail(requests, selectedID)
              \/ NoDetail(requests) /\ (rendered # None => rendered.id = selectedID)
        /\ rendered \in {None, detail} \/ \E j : HasDetail(requests, j)

Polled == (open /\ visible /\ Dialog!Active(jobs)) => pollTimer \/ HasPoll(requests)

\* The dialog is only open over the page of a user, and the timer set while it is open.
Timer == (pollTimer => open) /\ (open => page = "in")

DialogInv == DialogTyped /\ Selection /\ Polled /\ Timer

-------------------------------------------------------------------------------
(* Facts about the requests on their way *)

LEMMA Appended ==
    ASSUME NEW q, NEW r \in Requests, Queue(q), Sound(r), r.last => NoDetail(q)
    PROVE  /\ Queue(Append(q, r))
           /\ HasList(q) \/ r.kind = "list" => HasList(Append(q, r))
           /\ HasPoll(q) \/ r.kind \in {"status", "list"} \/ r.poll => HasPoll(Append(q, r))
           /\ NoDetail(q) /\ ~r.last => NoDetail(Append(q, r))
           /\ \A j : HasDetail(q, j) => HasDetail(Append(q, r), j)
           /\ r.last => HasDetail(Append(q, r), r.about)
<1> DEFINE p == Append(q, r)
<1>1. /\ p \in Seq(Requests) /\ DOMAIN p = 1..(Len(q) + 1)
      /\ DOMAIN q = 1..Len(q) /\ Len(q) \in Nat
      /\ p[Len(q) + 1] = r
      /\ \A i \in DOMAIN q : i \in DOMAIN p /\ p[i] = q[i]
      /\ \A i \in DOMAIN p : i \in DOMAIN q \/ i = Len(q) + 1
      /\ Len(q) + 1 \in DOMAIN p
  BY DEF Queue
<1> HIDE DEF p
<1>2. Queue(p)
  BY <1>1 DEF Queue, NoDetail
<1> QED
  BY <1>1, <1>2 DEF p, HasList, HasPoll, NoDetail, HasDetail

LEMMA Removed ==
    ASSUME NEW q, Queue(q), NEW k \in DOMAIN q
    PROVE  /\ Queue(Dialog!Without(q, k))
           /\ HasList(q) => HasList(Dialog!Without(q, k)) \/ q[k].kind = "list"
           /\ HasPoll(q) => HasPoll(Dialog!Without(q, k))
                            \/ q[k].kind \in {"status", "list"} \/ q[k].poll
           /\ NoDetail(q) \/ q[k].last => NoDetail(Dialog!Without(q, k))
           /\ \A j : HasDetail(q, j)
                => HasDetail(Dialog!Without(q, k), j) \/ (q[k].last /\ q[k].about = j)
<1> DEFINE p == Dialog!Without(q, k)
           from(i) == IF i < k THEN i ELSE i + 1
           to(i) == IF i < k THEN i ELSE i - 1
<1>1. /\ q \in Seq(Requests) /\ DOMAIN q = 1..Len(q) /\ Len(q) \in Nat
      /\ p = [i \in 1..(Len(q) - 1) |-> q[from(i)]]
  BY DEF Queue, Dialog!Without
<1>2. /\ \A i \in DOMAIN p : from(i) \in DOMAIN q /\ from(i) # k /\ p[i] = q[from(i)]
      /\ \A i, m \in DOMAIN p : from(i) = from(m) => i = m
      /\ \A i \in DOMAIN q \ {k} : to(i) \in DOMAIN p /\ from(to(i)) = i
      /\ p \in Seq(Requests)
  BY <1>1
<1>3. \A i \in DOMAIN q \ {k} : to(i) \in DOMAIN p /\ p[to(i)] = q[i]
  BY <1>2
<1> HIDE DEF p, from, to
<1>4. Queue(p)
  BY <1>2 DEF Queue
<1>5. (HasList(q) => HasList(p) \/ q[k].kind = "list")
      /\ (HasPoll(q) => HasPoll(p) \/ q[k].kind \in {"status", "list"} \/ q[k].poll)
  BY <1>3 DEF HasList, HasPoll
<1>6. NoDetail(q) \/ q[k].last => NoDetail(p)
  BY <1>2 DEF NoDetail, Queue
<1>7. \A j : HasDetail(q, j) => HasDetail(p, j) \/ (q[k].last /\ q[k].about = j)
  BY <1>3 DEF HasDetail
<1> QED
  BY <1>4, <1>5, <1>6, <1>7 DEF p

LEMMA Outdated ==
    ASSUME NEW q, Queue(q)
    PROVE  LET p == [k \in DOMAIN q |-> [q[k] EXCEPT !.last = FALSE]] IN
           /\ Queue(p) /\ NoDetail(p)
           /\ HasList(q) => HasList(p)
           /\ HasPoll(q) => HasPoll(p)
<1> DEFINE p == [k \in DOMAIN q |-> [q[k] EXCEPT !.last = FALSE]]
<1>1. /\ DOMAIN p = DOMAIN q /\ q \in Seq(Requests)
      /\ \A k \in DOMAIN q : q[k] \in Requests /\ p[k] = [q[k] EXCEPT !.last = FALSE]
  BY DEF Queue
<1>2. \A k \in DOMAIN q :
        /\ p[k] \in Requests /\ ~p[k].last
        /\ p[k].kind = q[k].kind /\ p[k].about = q[k].about /\ p[k].poll = q[k].poll
        /\ p[k].done = q[k].done /\ p[k].answer = q[k].answer
  BY <1>1 DEF Requests
<1>3. p \in Seq(Requests)
  BY <1>1, <1>2
<1> HIDE DEF p
<1>4. Queue(p)
  BY <1>1, <1>2, <1>3 DEF Queue, Sound
<1> QED
  BY <1>1, <1>2, <1>4 DEF p, NoDetail, HasList, HasPoll

LEMMA Executed ==
    ASSUME NEW q, Queue(q), NEW k \in DOMAIN q,
           NEW a \in JobLists \cup Dialog!Copies \cup {None},
           q[k].kind = "list" => a \in JobLists,
           q[k].kind \in {"detail", "submit", "cancel"} => a \in Dialog!Copies,
           q[k].kind = "detail" => a.id = q[k].about
    PROVE  LET p == [q EXCEPT ![k].done = TRUE, ![k].answer = a] IN
           /\ Queue(p)
           /\ HasList(q) <=> HasList(p)
           /\ HasPoll(q) <=> HasPoll(p)
           /\ NoDetail(q) <=> NoDetail(p)
           /\ \A j : HasDetail(q, j) <=> HasDetail(p, j)
<1> DEFINE p == [q EXCEPT ![k].done = TRUE, ![k].answer = a]
<1>1. /\ DOMAIN p = DOMAIN q /\ q \in Seq(Requests)
      /\ \A i \in DOMAIN q : q[i] \in Requests
      /\ \A i \in DOMAIN q : i # k => p[i] = q[i]
      /\ p[k] = [q[k] EXCEPT !.done = TRUE, !.answer = a]
  BY DEF Queue
<1>2. /\ p[k] \in Requests
      /\ p[k].last = q[k].last /\ p[k].kind = q[k].kind /\ p[k].about = q[k].about
      /\ p[k].poll = q[k].poll /\ p[k].done = TRUE /\ p[k].answer = a
  BY <1>1 DEF Requests
<1>3. p \in Seq(Requests)
  <2>version. DOMAIN q = 1..Len(q) /\ Len(q) \in Nat
    BY <1>1
  <2>1. p = [i \in 1..Len(q) |-> p[i]] /\ Len(q) \in Nat
    <3>1. p = [i \in DOMAIN q |-> p[i]]
      OBVIOUS
    <3> HIDE DEF p
    <3> QED
      BY <2>version, <3>1
  <2>2. \A i \in 1..Len(q) : p[i] \in Requests
    BY <1>1, <1>2
  <2> HIDE DEF p
  <2> QED
    BY <2>1, <2>2
<1> HIDE DEF p
<1>4. Sound(p[k])
  BY <1>1, <1>2 DEF Sound, Queue
<1>5. Queue(p)
  BY <1>1, <1>2, <1>3, <1>4 DEF Queue
<1> QED
  BY <1>1, <1>2, <1>5 DEF p, NoDetail, HasList, HasPoll, HasDetail

LEMMA Asked ==
    ASSUME NEW q, Queue(q), NEW kind \in Kinds \ {"detail"}, NEW about \in Jobs \cup {None},
           kind \in {"cancel", "delete"} => about \in Jobs,
           Dialog!Ask(q, Dialog!Request(kind, about))
    PROVE  /\ Queue(requests')
           /\ HasList(q) => HasList(requests')
           /\ HasPoll(q) \/ kind = "status" => HasPoll(requests')
           /\ NoDetail(q) => NoDetail(requests')
           /\ \A j : HasDetail(q, j) => HasDetail(requests', j)
<1> DEFINE r == Dialog!Request(kind, about)
<1>1. r \in Requests /\ Sound(r) /\ r.kind = kind /\ ~r.last
  BY DEF Requests, Kinds, Sound, Dialog!Request
<1>2. requests' = Append(q, r)
  BY DEF Dialog!Ask
<1> HIDE DEF r
<1> QED
  BY <1>1, <1>2, Appended

LEMMA ListAsked ==
    ASSUME NEW q, Queue(q), NEW first \in BOOLEAN, NEW submitted \in BOOLEAN,
           Dialog!loadJobs(q, first, submitted)
    PROVE  Queue(requests') /\ HasList(requests') /\ HasPoll(requests')
<1> DEFINE r == [Dialog!Request("list", None) EXCEPT !.first = first, !.submitted = submitted]
<1>1. r \in Requests /\ Sound(r) /\ r.kind = "list" /\ ~r.last
  BY DEF Requests, Kinds, Sound, Dialog!Request
<1>2. requests' = Append(q, r)
  BY DEF Dialog!loadJobs, Dialog!Ask
<1> HIDE DEF r
<1> QED
  BY <1>1, <1>2, Appended

LEMMA DetailAsked ==
    ASSUME NEW q, Queue(q), NEW j \in Jobs, NEW poll \in BOOLEAN, NEW submitted \in BOOLEAN,
           Dialog!selectJob(q, j, poll, submitted)
    PROVE  /\ Queue(requests') /\ selectedID' = j /\ HasDetail(requests', j)
           /\ HasList(q) => HasList(requests')
           /\ HasPoll(q) \/ poll => HasPoll(requests')
<1> DEFINE r == [Dialog!Request("detail", j) EXCEPT !.last = TRUE, !.poll = poll, !.submitted = submitted]
           p == [k \in DOMAIN q |-> [q[k] EXCEPT !.last = FALSE]]
<1>1. /\ r \in Requests /\ Sound(r) /\ r.kind = "detail" /\ r.last /\ r.about = j /\ r.poll = poll
  BY DEF Requests, Kinds, Sound, Dialog!Request
<1>2. requests' = Append(p, r) /\ selectedID' = j
  BY DEF Dialog!selectJob, Dialog!Ask
<1>3. Queue(p) /\ NoDetail(p) /\ (HasList(q) => HasList(p)) /\ (HasPoll(q) => HasPoll(p))
  BY Outdated
<1> HIDE DEF r, p
<1> QED
  BY <1>1, <1>2, <1>3, Appended

\* An answer is that of the request, or a failure.
LEMMA Answers ==
    ASSUME NEW x \in Requests, Sound(x), NEW r \in Dialog!Answer(x)
    PROVE  /\ r \in Requests /\ Sound(r)
           /\ r.kind = x.kind /\ r.about = x.about /\ r.last = x.last /\ r.poll = x.poll
           /\ r.kind = "detail" =>
                r.answer = None \/ (r.answer \in Dialog!Copies /\ r.answer.id = r.about)
<1>1. CASE r = Dialog!Failed(x)
  BY <1>1 DEF Dialog!Failed, Requests, Sound
<1>2. CASE r # Dialog!Failed(x) /\ x.kind \in {"status", "boards"}
  BY <1>2 DEF Dialog!Answer, Requests, Sound
<1>3. CASE r # Dialog!Failed(x) /\ x.kind \notin {"status", "boards"}
  BY <1>3 DEF Dialog!Answer, Requests, Sound
<1> QED
  BY <1>1, <1>2, <1>3

LEMMA JobsAreNumbers == Cardinality(Jobs) \in Nat /\ Jobs = 1..Cardinality(Jobs)
BY JobsAssumption, FS_CardinalityType

\* Some jobs have a smallest one: that with the least set of jobs up to it.
LEMMA MinOfJobs ==
    ASSUME NEW S \in SUBSET Jobs, S # {}
    PROVE  Dialog!Min(S) \in S
<1> DEFINE side(j) == {i \in S : i <= j}
           D == {side(j) : j \in S}
<1>1. D \subseteq FiniteSubsetsOf(Jobs) /\ D # {}
  <2>1. \A j \in S : side(j) \in SUBSET Jobs
    OBVIOUS
  <2>2. FiniteSubsetsOf(Jobs) = SUBSET Jobs
    BY JobsAssumption, FS_FiniteSubsetsOfFinite
  <2> HIDE DEF side
  <2> QED
    BY <2>1, <2>2
<1>2. PICK d \in D : \A e \in D : <<e, d>> \notin StrictSubsetOrdering(Jobs)
  <2>1. IsWellFoundedOn(StrictSubsetOrdering(Jobs), FiniteSubsetsOf(Jobs))
    BY FS_StrictSubsetOrderingWellFounded
  <2> HIDE DEF D
  <2> QED
    BY <1>1, <2>1, WFMin, Zenon
<1>3. PICK j \in S : d = side(j)
  OBVIOUS
<1>4. ASSUME NEW i \in S, ~(j <= i)
      PROVE  FALSE
  <2>1. i \in Int /\ j \in Int
    BY JobsAreNumbers
  <2>2. side(i) \in SUBSET Jobs /\ side(j) \in SUBSET Jobs
    OBVIOUS
  <2>3. j \in side(j) /\ j \notin side(i)
    BY <1>4, <2>1
  <2>4. ASSUME NEW x \in side(i)
        PROVE  x \in side(j)
    BY <1>4, <2>1, <2>4, JobsAreNumbers
  <2> HIDE DEF side
  <2>5. <<side(i), d>> \in StrictSubsetOrdering(Jobs)
    BY <1>3, <2>2, <2>3, <2>4 DEF StrictSubsetOrdering
  <2> QED
    BY <1>2, <2>5
<1> QED
  BY <1>4 DEF Dialog!Min

\* And a greatest one: that with the least set of jobs from it on.
LEMMA MaxOfJobs ==
    ASSUME NEW S \in SUBSET Jobs, S # {}
    PROVE  Dialog!Max(S) \in S
<1> DEFINE side(j) == {i \in S : i >= j}
           D == {side(j) : j \in S}
<1>1. D \subseteq FiniteSubsetsOf(Jobs) /\ D # {}
  <2>1. \A j \in S : side(j) \in SUBSET Jobs
    OBVIOUS
  <2>2. FiniteSubsetsOf(Jobs) = SUBSET Jobs
    BY JobsAssumption, FS_FiniteSubsetsOfFinite
  <2> HIDE DEF side
  <2> QED
    BY <2>1, <2>2
<1>2. PICK d \in D : \A e \in D : <<e, d>> \notin StrictSubsetOrdering(Jobs)
  <2>1. IsWellFoundedOn(StrictSubsetOrdering(Jobs), FiniteSubsetsOf(Jobs))
    BY FS_StrictSubsetOrderingWellFounded
  <2> HIDE DEF D
  <2> QED
    BY <1>1, <2>1, WFMin, Zenon
<1>3. PICK j \in S : d = side(j)
  OBVIOUS
<1>4. ASSUME NEW i \in S, ~(j >= i)
      PROVE  FALSE
  <2>1. i \in Int /\ j \in Int
    BY JobsAreNumbers
  <2>2. side(i) \in SUBSET Jobs /\ side(j) \in SUBSET Jobs
    OBVIOUS
  <2>3. j \in side(j) /\ j \notin side(i)
    BY <1>4, <2>1
  <2>4. ASSUME NEW x \in side(i)
        PROVE  x \in side(j)
    BY <1>4, <2>1, <2>4, JobsAreNumbers
  <2> HIDE DEF side
  <2>5. <<side(i), d>> \in StrictSubsetOrdering(Jobs)
    BY <1>3, <2>2, <2>3, <2>4 DEF StrictSubsetOrdering
  <2> QED
    BY <1>2, <2>5
<1> QED
  BY <1>4 DEF Dialog!Max

-------------------------------------------------------------------------------
(* The dialog keeps its invariant *)

USE DEF Dialog!Active

\* The frame of an action that leaves page, jobs, selection and panel alone and at most
\* sends one request.
LEMMA DialogClicks ==
    ASSUME DialogInv,
           \/ Dialog!openDialog \/ Dialog!refresh \/ Dialog!clickClose
           \/ Dialog!submitInvestigation \/ Dialog!cancelSelected \/ Dialog!deleteSelected
           \/ Dialog!addSelectedToBoard \/ Dialog!visibilityChange \/ Dialog!pollTimerFires
           \/ \E j \in Jobs : Dialog!clickJob(j)
    PROVE  DialogInv'
<1> USE DEF DialogInv, DialogTyped, Selection, Polled, Timer
<1> USE DEF Dialog!listVars, Dialog!detailVars, Dialog!dialogVars
<1>1. Queue(requests)
  OBVIOUS
<1>2. CASE Dialog!openDialog
  <2>1. Dialog!Ask(requests, Dialog!Request("status", None))
    BY <1>2 DEF Dialog!openDialog
  <2>2. /\ Queue(requests') /\ HasPoll(requests')
        /\ HasList(requests) => HasList(requests')
        /\ NoDetail(requests) => NoDetail(requests')
        /\ \A j : HasDetail(requests, j) => HasDetail(requests', j)
    BY <1>1, <2>1, Asked DEF Kinds
  <2> QED
    BY <1>2, <2>2 DEF Dialog!openDialog
<1>3. CASE Dialog!refresh
  <2>1. Dialog!Ask(requests, Dialog!Request("status", None))
    BY <1>3 DEF Dialog!refresh
  <2>2. /\ Queue(requests') /\ HasPoll(requests')
        /\ HasList(requests) => HasList(requests')
        /\ NoDetail(requests) => NoDetail(requests')
        /\ \A j : HasDetail(requests, j) => HasDetail(requests', j)
    BY <1>1, <2>1, Asked DEF Kinds
  <2> QED
    BY <1>3, <2>2 DEF Dialog!refresh
<1>4. CASE Dialog!clickClose
  BY <1>4 DEF Dialog!clickClose, Dialog!closeDialog
<1>5. CASE Dialog!submitInvestigation
  <2>1. Dialog!Ask(requests, Dialog!Request("submit", None))
    BY <1>5 DEF Dialog!submitInvestigation
  <2>2. /\ Queue(requests')
        /\ HasPoll(requests) => HasPoll(requests')
        /\ HasList(requests) => HasList(requests')
        /\ NoDetail(requests) => NoDetail(requests')
        /\ \A j : HasDetail(requests, j) => HasDetail(requests', j)
    BY <1>1, <2>1, Asked DEF Kinds
  <2> QED
    BY <1>5, <2>2 DEF Dialog!submitInvestigation
<1>6. ASSUME NEW kind \in {"cancel", "delete", "boards"}, NEW seen, Dialog!Press(kind, seen)
      PROVE  DialogInv'
  <2>1. Dialog!Ask(requests, Dialog!Request(kind, detail.id)) /\ detail.id \in Jobs
    <3>1. detail # None /\ detail \in Dialog!Copies
      BY <1>6 DEF Dialog!Press
    <3> QED
      BY <1>6, <3>1 DEF Dialog!Press, Dialog!Copies
  <2>2. /\ Queue(requests')
        /\ HasPoll(requests) => HasPoll(requests')
        /\ HasList(requests) => HasList(requests')
        /\ NoDetail(requests) => NoDetail(requests')
        /\ \A j : HasDetail(requests, j) => HasDetail(requests', j)
    BY <1>1, <2>1, Asked DEF Kinds
  <2> QED
    BY <1>6, <2>2 DEF Dialog!Press
<1>7. CASE Dialog!visibilityChange
  <2>1. CASE visible' /\ open
    <3>1. Dialog!loadJobs(requests, FALSE, FALSE)
      BY <1>7, <2>1 DEF Dialog!visibilityChange
    <3>2. Queue(requests') /\ HasList(requests') /\ HasPoll(requests')
      BY <1>1, <3>1, ListAsked
    <3> QED
      BY <1>7, <2>1, <3>2 DEF Dialog!visibilityChange
  <2>2. CASE ~(visible' /\ open)
    BY <1>7, <2>2 DEF Dialog!visibilityChange, Dialog!schedulePoll
  <2> QED
    BY <2>1, <2>2
<1>8. CASE Dialog!pollTimerFires
  <2>1. Queue(requests') /\ HasList(requests') /\ HasPoll(requests')
    BY <1>1, <1>8, ListAsked DEF Dialog!pollTimerFires
  <2> QED
    BY <1>8, <2>1 DEF Dialog!pollTimerFires
<1>9. ASSUME NEW j \in Jobs, Dialog!clickJob(j)
      PROVE  DialogInv'
  <2>1. Dialog!selectJob(requests, j, FALSE, FALSE)
    BY <1>9 DEF Dialog!clickJob
  <2>2. /\ Queue(requests') /\ selectedID' = j /\ HasDetail(requests', j)
        /\ HasPoll(requests) => HasPoll(requests')
    BY <1>1, <2>1, DetailAsked
  <2> QED
    BY <1>9, <2>2 DEF Dialog!clickJob
<1> QED
  BY <1>2, <1>3, <1>4, <1>5, <1>6, <1>7, <1>8, <1>9
     DEF Dialog!cancelSelected, Dialog!deleteSelected, Dialog!addSelectedToBoard

\* What the server answers is what the page expects.
LEMMA OutcomesAreSound ==
    ASSUME DialogTyped, NEW k \in DOMAIN requests, NEW o \in Dialog!Outcomes(requests[k])
    PROVE  /\ o.job \in [Jobs -> Dialog!Statuses \cup {"none", "gone"}]
           /\ o.answer \in JobLists \cup Dialog!Copies \cup {None}
           /\ requests[k].kind = "list" => o.answer \in JobLists
           /\ requests[k].kind \in {"detail", "submit", "cancel"} => o.answer \in Dialog!Copies
           /\ requests[k].kind = "detail" => o.answer.id = requests[k].about
<1> DEFINE r == requests[k]
           unused == {i \in Jobs : job[i] = "none"}
           Rows == [Jobs -> Dialog!Statuses \cup {"none", "gone"}]
<1>1. job \in Rows
  BY DEF DialogTyped
<1>2. ASSUME NEW j \in Jobs, NEW s \in {"active", "failed", "gone"}
      PROVE  Dialog!Row(j, s) \in Rows
  BY <1>1, <1>2 DEF Dialog!Row, Dialog!Statuses, Dialog!Terminal
<1>3. ASSUME NEW j \in Jobs, NEW s \in Dialog!Statuses
      PROVE  Dialog!Copy(j, s) \in Dialog!Copies /\ Dialog!Copy(j, s).id = j
  BY <1>3 DEF Dialog!Copy, Dialog!Copies
<1>4. {"active", "failed"} \subseteq Dialog!Statuses
  BY DEF Dialog!Statuses, Dialog!Terminal
<1> HIDE DEF r, unused, Rows
<1>5. CASE r.kind = "list"
  <2>1. o = [job |-> job, answer |-> Dialog!Listed]
    BY <1>5 DEF Dialog!Outcomes, Dialog!Outcome, r
  <2>2. Dialog!Listed \in JobLists
    BY DEF Dialog!Listed, JobLists
  <2> QED
    BY <1>1, <1>5, <2>1, <2>2 DEF r, Rows
<1>6. CASE r.kind = "submit"
  <2>1. unused # {} /\ unused \in SUBSET Jobs
        /\ o \in {Dialog!Outcome(Dialog!Row(Dialog!Min(unused), "active"),
                                 Dialog!Copy(Dialog!Min(unused), "active"))}
    BY <1>6 DEF Dialog!Outcomes, r, unused
  <2>2. Dialog!Min(unused) \in Jobs
    BY <2>1, MinOfJobs
  <2> QED
    BY <1>2, <1>3, <1>4, <1>6, <2>1, <2>2 DEF Dialog!Outcome, r, Rows
<1>7. CASE r.kind \notin {"list", "submit"}
  <2>1. r.about \in Jobs /\ job[r.about] \in Dialog!Statuses
        /\ o \in Dialog!OutcomesFor(r.kind, r.about)
    BY <1>7 DEF Dialog!Outcomes, r
  <2>2. \/ /\ r.kind \in {"detail", "cancel"}
           /\ o = [job |-> job, answer |-> Dialog!Copy(r.about, job[r.about])]
        \/ /\ r.kind = "cancel"
           /\ o = [job |-> Dialog!Row(r.about, "failed"), answer |-> Dialog!Copy(r.about, "failed")]
        \/ /\ r.kind = "delete"
           /\ o = [job |-> Dialog!Row(r.about, "gone"), answer |-> None]
    BY <2>1 DEF Dialog!OutcomesFor, Dialog!Outcome
  <2> QED
    BY <1>1, <1>2, <1>3, <1>4, <1>7, <2>1, <2>2 DEF r, Rows
<1> QED
  BY <1>5, <1>6, <1>7

LEMMA DialogServer ==
    ASSUME DialogInv,
           \/ \E j \in Jobs : Dialog!JobEnds(j)
           \/ \E k \in DOMAIN requests : Dialog!Execute(k)
    PROVE  DialogInv'
<1> USE DEF DialogInv, Selection, Polled, Timer
<1> USE DEF Dialog!listVars, Dialog!detailVars, Dialog!dialogVars
<1>1. ASSUME NEW j \in Jobs, Dialog!JobEnds(j)
      PROVE  DialogInv'
  BY <1>1 DEF Dialog!JobEnds, DialogTyped, Dialog!Statuses
<1>2. ASSUME NEW k \in DOMAIN requests, Dialog!Execute(k)
      PROVE  DialogInv'
  <2> HIDE DEF DialogInv, Selection, Polled, Timer
  <2>1. PICK o \in Dialog!Outcomes(requests[k]) :
            /\ job' = o.job
            /\ requests' = [requests EXCEPT ![k].done = TRUE, ![k].answer = o.answer]
    BY <1>2 DEF Dialog!Execute
  <2>2. /\ o.job \in [Jobs -> Dialog!Statuses \cup {"none", "gone"}]
        /\ o.answer \in JobLists \cup Dialog!Copies \cup {None}
        /\ requests[k].kind = "list" => o.answer \in JobLists
        /\ requests[k].kind \in {"detail", "submit", "cancel"} => o.answer \in Dialog!Copies
        /\ requests[k].kind = "detail" => o.answer.id = requests[k].about
    BY <1>2, OutcomesAreSound DEF DialogInv
  <2>3. /\ Queue(requests')
        /\ HasList(requests) <=> HasList(requests')
        /\ HasPoll(requests) <=> HasPoll(requests')
        /\ NoDetail(requests) <=> NoDetail(requests')
        /\ \A j : HasDetail(requests, j) <=> HasDetail(requests', j)
    <3> DEFINE a == o.answer
    <3>1. Queue(requests)
      BY DEF DialogInv, DialogTyped
    <3>2. /\ a \in JobLists \cup Dialog!Copies \cup {None}
          /\ requests[k].kind = "list" => a \in JobLists
          /\ requests[k].kind \in {"detail", "submit", "cancel"} => a \in Dialog!Copies
          /\ requests[k].kind = "detail" => a.id = requests[k].about
          /\ requests' = [requests EXCEPT ![k].done = TRUE, ![k].answer = a]
      BY <2>1, <2>2
    <3> HIDE DEF a
    <3> QED
      BY <1>2, <3>1, <3>2, Executed
  <2>4. UNCHANGED <<jobs, selectedID, detail, rendered>>
    BY <1>2 DEF Dialog!Execute
  <2>5. Selection'
    BY <2>3, <2>4 DEF DialogInv, Selection
  <2>6. DialogTyped' /\ Polled' /\ Timer'
    BY <1>2, <2>1, <2>2, <2>3 DEF Dialog!Execute, DialogInv, DialogTyped, Polled, Timer
  <2> QED
    BY <2>5, <2>6 DEF DialogInv
<1> QED
  BY <1>1, <1>2

LEMMA DialogAnswers ==
    ASSUME DialogInv, NEW k \in DOMAIN requests, Dialog!Answered(k)
    PROVE  DialogInv'
<1> DEFINE rest == Dialog!Without(requests, k)
           x == requests[k]
<1> USE DEF Dialog!listVars, Dialog!detailVars
<1>1. Queue(requests)
  BY DEF DialogInv, DialogTyped
<1>2. /\ Queue(rest)
      /\ HasList(requests) => HasList(rest) \/ x.kind = "list"
      /\ HasPoll(requests) => HasPoll(rest) \/ x.kind \in {"status", "list"} \/ x.poll
      /\ NoDetail(requests) \/ x.last => NoDetail(rest)
      /\ \A j : HasDetail(requests, j) => HasDetail(rest, j) \/ (x.last /\ x.about = j)
  BY <1>1, Removed
<1>3. x \in Requests /\ Sound(x)
  BY <1>1 DEF Queue
<1>4. /\ UNCHANGED <<page, job, visible>>
      /\ \E r \in Dialog!Answer(x) :
            \/ Dialog!statusAnswered(r, rest) \/ Dialog!jobsAnswered(r, rest)
            \/ Dialog!detailAnswered(r, rest) \/ Dialog!submitAnswered(r, rest)
            \/ Dialog!cancelAnswered(r, rest) \/ Dialog!deleteAnswered(r, rest)
            \/ Dialog!boardsAnswered(r, rest)
  BY DEF Dialog!Answered
<1> HIDE DEF rest, x
<1>5. PICK r \in Dialog!Answer(x) :
            \/ Dialog!statusAnswered(r, rest) \/ Dialog!jobsAnswered(r, rest)
            \/ Dialog!detailAnswered(r, rest) \/ Dialog!submitAnswered(r, rest)
            \/ Dialog!cancelAnswered(r, rest) \/ Dialog!deleteAnswered(r, rest)
            \/ Dialog!boardsAnswered(r, rest)
  BY <1>4
<1>6. /\ r \in Requests /\ Sound(r)
      /\ r.kind = x.kind /\ r.about = x.about /\ r.last = x.last /\ r.poll = x.poll
      /\ r.kind = "detail" =>
            r.answer = None \/ (r.answer \in Dialog!Copies /\ r.answer.id = r.about)
  BY <1>3, Answers
<1>7. r.submitted \in BOOLEAN /\ r.poll \in BOOLEAN /\ r.first \in BOOLEAN
  BY <1>6 DEF Requests
<1>8. CASE Dialog!statusAnswered(r, rest)
  <2>1. Queue(requests') /\ HasList(requests') /\ HasPoll(requests')
    BY <1>2, <1>8, ListAsked DEF Dialog!statusAnswered
  <2> QED
    BY <1>4, <1>8, <2>1
       DEF Dialog!statusAnswered, DialogInv, DialogTyped, Selection, Polled, Timer
<1>9. CASE Dialog!jobsAnswered(r, rest) /\ r.done
  <2> DEFINE kept == selectedID # None /\ r.answer[selectedID] # "none"
             some == {j \in Jobs : r.answer[j] # "none"}
             next == IF kept THEN selectedID
                     ELSE IF r.first /\ some # {} THEN Dialog!Max(some) ELSE None
  <2>1. /\ r.answer \in JobLists /\ jobs' = r.answer
        /\ detail' \in {detail, None}
        /\ UNCHANGED <<open, configured>>
        /\ IF next # None
           THEN Dialog!selectJob(rest, next, TRUE, r.submitted) /\ UNCHANGED <<rendered, pollTimer, busy>>
           ELSE /\ selectedID' = None /\ rendered' = None
                /\ Dialog!schedulePoll
                /\ busy' = (busy /\ ~r.submitted)
                /\ requests' = rest
    BY <1>6, <1>9 DEF Dialog!jobsAnswered, Dialog!listed, Sound
  <2>2. next \in Jobs \cup {None}
    <3>1. some \in SUBSET Jobs
      OBVIOUS
    <3> HIDE DEF some
    <3>2. some # {} => Dialog!Max(some) \in Jobs
      BY <3>1, MaxOfJobs
    <3> QED
      BY <3>2 DEF DialogInv, DialogTyped
  <2> HIDE DEF next
  <2>3. CASE next # None
    <3>1. Queue(requests') /\ selectedID' = next /\ HasDetail(requests', next) /\ HasPoll(requests')
      BY <1>2, <1>7, <2>1, <2>2, <2>3, DetailAsked
    <3> QED
      BY <1>4, <2>1, <2>2, <2>3, <3>1 DEF DialogInv, DialogTyped, Selection, Polled, Timer
  <2>4. CASE next = None
    <3>1. pollTimer' = (open' /\ visible' /\ \E j \in Jobs : jobs'[j] = "active")
      BY <2>1, <2>4 DEF Dialog!schedulePoll
    <3> QED
      BY <1>2, <1>4, <1>7, <2>1, <2>4, <3>1 DEF DialogInv, DialogTyped, Selection, Polled, Timer
  <2> QED
    BY <2>3, <2>4
<1>10. CASE Dialog!jobsAnswered(r, rest) /\ ~r.done
  <2>1. /\ jobs' = [j \in Jobs |-> "none"] /\ rendered' = None
        /\ busy' = (busy /\ ~r.submitted) /\ requests' = rest
        /\ UNCHANGED <<open, pollTimer, selectedID, detail, configured>>
    BY <1>10 DEF Dialog!jobsAnswered, Dialog!listFailed
  <2>2. jobs' \in JobLists
    BY <2>1 DEF JobLists
  <2> QED
    BY <1>2, <1>4, <1>7, <2>1, <2>2 DEF DialogInv, DialogTyped, Selection, Polled, Timer
<1>11. CASE Dialog!detailAnswered(r, rest)
  <2>1. /\ requests' = rest /\ busy' = (busy /\ ~r.submitted)
        /\ UNCHANGED <<open, configured, jobs, selectedID>>
        /\ IF r.last THEN detail' = r.answer /\ rendered' = r.answer ELSE UNCHANGED <<detail, rendered>>
        /\ IF r.poll THEN pollTimer' = (open' /\ visible' /\ \E j \in Jobs : jobs'[j] = "active")
                     ELSE UNCHANGED pollTimer
        /\ r.kind = "detail"
    BY <1>11 DEF Dialog!detailAnswered, Dialog!Counts, Dialog!schedulePoll
  <2>2. DialogTyped'
    BY <1>2, <1>4, <1>6, <1>7, <2>1 DEF DialogInv, DialogTyped
  <2>3. Selection'
    <3>1. CASE r.last
      <4>1. ~NoDetail(requests) /\ NoDetail(rest)
        BY <1>2, <1>6, <3>1 DEF NoDetail, x
      <4>2. ~HasDetail(rest, selectedID)
        BY <4>1 DEF HasDetail, NoDetail
      <4> QED
        BY <1>2, <1>6, <2>1, <3>1, <4>1, <4>2 DEF DialogInv, Selection
    <3>2. CASE ~r.last
      BY <1>2, <1>6, <2>1, <3>2 DEF DialogInv, Selection
    <3> QED
      BY <3>1, <3>2
  <2>4. Polled' /\ Timer'
    BY <1>2, <1>4, <1>6, <1>7, <2>1 DEF DialogInv, DialogTyped, Polled, Timer
  <2> QED
    BY <2>2, <2>3, <2>4 DEF DialogInv
<1> HIDE DEF Dialog!Active
<1>12. ASSUME r.kind \in {"submit", "cancel", "delete"},
              \/ Dialog!submitAnswered(r, rest)
              \/ Dialog!cancelAnswered(r, rest)
              \/ Dialog!deleteAnswered(r, rest)
       PROVE  DialogInv'
  <2>1. /\ UNCHANGED <<open, configured, jobs, pollTimer>>
        /\ busy' \in BOOLEAN
        /\ selectedID' \in Jobs \cup {None}
        /\ detail' \in Dialog!Copies \cup {None} /\ rendered' \in Dialog!Copies \cup {None}
        /\ \/ \E first \in BOOLEAN, submitted \in BOOLEAN : Dialog!loadJobs(rest, first, submitted)
           \/ requests' = rest /\ UNCHANGED <<selectedID, detail, rendered>>
    BY <1>6, <1>12 DEF Dialog!submitAnswered, Dialog!cancelAnswered, Dialog!deleteAnswered,
                       Sound, Dialog!Copies, DialogInv, DialogTyped
  <2>2. CASE requests' = rest /\ UNCHANGED <<selectedID, detail, rendered>>
    <3>1. ~x.last /\ ~x.poll /\ x.kind \notin {"list", "status"}
      BY <1>3, <1>6, <1>12 DEF Sound
    <3> QED
      BY <1>2, <1>4, <2>1, <2>2, <3>1 DEF DialogInv, DialogTyped, Selection, Polled, Timer, Dialog!Active
  <2>3. ASSUME NEW first \in BOOLEAN, NEW submitted \in BOOLEAN, Dialog!loadJobs(rest, first, submitted)
        PROVE  DialogInv'
    <3>1. Queue(requests') /\ HasList(requests') /\ HasPoll(requests')
      BY <1>2, <2>3, ListAsked
    <3> QED
      BY <1>4, <2>1, <3>1 DEF DialogInv, DialogTyped, Selection, Polled, Timer
  <2> QED
    BY <2>1, <2>2, <2>3
<1>13. CASE Dialog!boardsAnswered(r, rest)
  <2>1. /\ requests' = rest /\ r.kind = "boards"
        /\ IF r.done THEN open' = FALSE /\ pollTimer' = (pollTimer /\ ~open) ELSE UNCHANGED <<open, pollTimer>>
        /\ UNCHANGED <<busy, configured, jobs, selectedID, detail, rendered>>
    BY <1>13 DEF Dialog!boardsAnswered, Dialog!closeDialog
  <2>2. ~x.last /\ ~x.poll /\ x.kind \notin {"list", "status"}
    BY <1>3, <1>6, <2>1 DEF Sound
  <2> QED
    BY <1>2, <1>4, <2>1, <2>2 DEF DialogInv, DialogTyped, Selection, Polled, Timer, Dialog!Active
<1>14. r.kind \in {"submit", "cancel", "delete"}
         \/ ~(Dialog!submitAnswered(r, rest) \/ Dialog!cancelAnswered(r, rest) \/ Dialog!deleteAnswered(r, rest))
  BY DEF Dialog!submitAnswered, Dialog!cancelAnswered, Dialog!deleteAnswered
<1> QED
  BY <1>5, <1>8, <1>9, <1>10, <1>11, <1>12, <1>13, <1>14

LEMMA DialogStep ==
    ASSUME DialogInv, Dialog!DialogNext
    PROVE  DialogInv'
BY DialogClicks, DialogServer, DialogAnswers DEF Dialog!DialogNext, Dialog!UserSteps

\* What goes on beside the dialog closes it or leaves it alone.
LEMMA DialogBeside ==
    ASSUME DialogInv, UNCHANGED <<job, busy, visible, configured, jobs, detailVars, requests>>,
           \/ Dialog!closeDialog
           \/ UNCHANGED <<open, pollTimer>> /\ (page = "in" => page' = "in")
    PROVE  DialogInv'
<1>1. UNCHANGED <<job, busy, visible, configured, jobs, selectedID, detail, rendered, requests>>
  BY DEF detailVars
<1>2. /\ open' \in {open, FALSE} /\ pollTimer' \in {pollTimer, FALSE}
      /\ open' => page' = "in" /\ UNCHANGED <<open, pollTimer>>
      /\ pollTimer' => open'
  <2>1. CASE Dialog!closeDialog
    <3>1. open' = FALSE /\ pollTimer' = (pollTimer /\ ~open) /\ (pollTimer => open)
      BY <2>1 DEF DialogInv, Timer, Dialog!closeDialog
    <3> QED
      BY <3>1
  <2>2. CASE UNCHANGED <<open, pollTimer>> /\ (page = "in" => page' = "in")
    BY <2>2 DEF DialogInv, Timer
  <2> QED
    BY <2>1, <2>2
<1>3. DialogTyped'
  BY <1>1, <1>2 DEF DialogInv, DialogTyped
<1>4. Selection'
  BY <1>1 DEF DialogInv, Selection
<1>5. Polled' /\ Timer'
  BY <1>1, <1>2 DEF DialogInv, Polled, Timer
<1> QED
  BY <1>3, <1>4, <1>5 DEF DialogInv

-------------------------------------------------------------------------------
(* The inductive invariant of the account's part *)

Unseen == Account!Unseen
ListOf == Account!ListOf
Changes == DOMAIN ListOf

AccountTyped ==
    /\ page \in {"loading", "in", "out"}
    /\ signedIn \in BOOLEAN /\ user \in BOOLEAN /\ bell \in BOOLEAN
    /\ enabled2FA \in BOOLEAN /\ twoFactorEnabled \in BOOLEAN
    /\ panels \subseteq Account!Panels
    /\ block \in {"none", "enable", "setup", "recovery", "disable"}
    /\ scans \in [url: Account!URLs, page: Nat \ {0}, pages: Nat \ {0}]
    /\ diffSelectA \in Account!Rows \cup {None}

\* A load that has been executed brings a version the list has had.
Pending(r) ==
    /\ r = [kind |-> r.kind, about |-> r.about, seen |-> r.seen]
    /\ r.seen \in Nat \cup {Unseen}
    /\ r.kind = "load" => r.about \in Account!Lists /\ r.seen <= server[r.about]
    /\ r.kind = "change" => r.about \in Changes
    /\ r.kind \in {"scans", "scansThenSchedules"} => r.about \in Account!URLs

ListsTyped ==
    /\ server \in [Account!Lists -> Nat] /\ shown \in [Account!Lists -> Nat \cup {Unseen}]
    /\ \A L \in Account!Lists : shown[L] <= server[L]
    /\ missed \subseteq Account!Lists
    /\ \A r \in DOMAIN pending : Pending(r)

\* A page that is being loaded offers no change but that of a share link.
Session ==
    /\ page = "in" => user
    /\ bell => page = "in"
    /\ page # "in" => panels \cap {"myScans", "settings"} = {}
    /\ page = "loading" => \A r \in DOMAIN pending : r.kind = "change" => ListOf[r.about] = "shares"

\* On its way is what will show the newest version: a load that reads it or has read it,
\* or a change after which the list is loaded.
Brought(L) ==
    \E r \in DOMAIN pending :
        \/ r.kind = "load" /\ r.about = L /\ r.seen \in {Unseen, server[L]}
        \/ r.kind = "change" /\ ListOf[r.about] = L /\ r.seen # Unseen

\* Otherwise the newest version is shown, and what is on its way is known to be older.
Newest(L) ==
    /\ shown[L] \in {Unseen, server[L]}
    /\ \A r \in DOMAIN pending : r.kind = "load" /\ r.about = L => r.seen < shown[L]

Followed == \A L \in Account!Lists \ missed : page # "out" => Brought(L) \/ Newest(L)

AccountInv == AccountTyped /\ ListsTyped /\ Session /\ Followed

-------------------------------------------------------------------------------
(* The inductive invariant of the report *)

Scan == DOMAIN Found \cup {None}
Progress == {"absent", "loading", "loaded"}

PageTyped ==
    /\ lastScanData \in Scan /\ profile \in Scan /\ seeded \in Scan
    /\ drawn \in BOOLEAN /\ resultsPanel \in BOOLEAN /\ leafletLoaded \in BOOLEAN
    /\ live # None => /\ live = [of |-> live.of, received |-> live.received]
                      /\ live.of \in DOMAIN Found
                      /\ live.received \in 0..Len(Found[live.of].results)
    /\ filter = [type |-> filter.type, confident |-> filter.confident, sort |-> filter.sort]
    /\ filter.confident \in BOOLEAN /\ filter.sort \in Report!Sorts
    /\ menus \subseteq {"type", "sort"} /\ opening \subseteq {"open", "seed"}
    /\ map = [view |-> map.view, of |-> map.of]
    /\ map.view \in {"blank", "loading", "nothing", "map"} /\ map.of \in Scan
    /\ notes = [unavailable |-> notes.unavailable, skipped |-> notes.skipped]
    /\ notes.unavailable \in Scan /\ notes.skipped \in Scan

\* A draw only waits for d3 while it is loading, and there is no graph without it.
GraphInv ==
    /\ tab \in Report!Tabs /\ graphMode \in {"connections", "sources"}
    /\ waiting \in Scan /\ scripts \in [d3: Progress, boards: Progress]
    /\ graph # None => graph.of \in DOMAIN Found
    /\ nodeDetail # None => nodeDetail.of \in DOMAIN Found
    /\ scripts.d3 # "loaded" => graph = None
    /\ waiting # None => scripts.d3 = "loading"

SurfaceInv ==
    /\ surface = [of |-> surface.of, shows |-> surface.shows, box |-> surface.box, fixes |-> surface.fixes]
    /\ surface.of \in Scan /\ surface.box \in Nat /\ surface.fixes \in {None, surface.of}

\* What is listed is what the filters of the timeline say.
Listed(t) ==
    /\ t = [of |-> t.of, category |-> t.category, year |-> t.year, expanded |-> t.expanded]
    /\ t.of \in DOMAIN Found /\ t.expanded \in BOOLEAN
    /\ t.year # None => Report!InYear(t) # {}
    /\ t.expanded => Report!HasMore(t)

TimelineInv == timeline # None => Listed(timeline)

\* The fixes for the box on the page were asked for the scan it was drawn from.
Placed(r, box) ==
    /\ r.of \in DOMAIN Found /\ r.box \in 0..box.box
    /\ r.kind = "fixes" /\ r.box = box.box => r.of = box.of

AskedInv == \A r \in DOMAIN asked : Placed(r, surface)

\* While its d3 is loading, the graph that is missing is that of the report.
Current ==
    drawn =>
        /\ lastScanData # None
        /\ grid.of # None => grid = Report!Cards(lastScanData, filter)
        /\ tab = "graph" => IF waiting # None THEN waiting = lastScanData
                            ELSE graph \in {None, Report!Drawing(lastScanData, graphMode, profile)}
        /\ tab = "surface" => surface.of = lastScanData

ReportInv == PageTyped /\ GraphInv /\ SurfaceInv /\ TimelineInv /\ AskedInv /\ Current

IInv == DialogInv /\ AccountInv /\ ReportInv

-------------------------------------------------------------------------------
(* Facts about bags and lists *)

LEMMA BagOfOneMore ==
    ASSUME NEW B, NEW x
    PROVE  /\ DOMAIN Account!BagAdd(B, x) = DOMAIN B \cup {x}
           /\ DOMAIN Report!BagAdd(B, x) = DOMAIN B \cup {x}
BY DEF Account!BagAdd, Report!BagAdd

LEMMA BagOfOneLess ==
    ASSUME NEW B, NEW x
    PROVE  /\ DOMAIN Account!BagRemove(B, x) \subseteq DOMAIN B
           /\ DOMAIN B \ {x} \subseteq DOMAIN Account!BagRemove(B, x)
           /\ DOMAIN Report!BagRemove(B, x) \subseteq DOMAIN B
BY DEF Account!BagRemove, Report!BagRemove

LEMMA BagOfBoth ==
    ASSUME NEW B, NEW S
    PROVE  /\ DOMAIN Account!(+)(B, Account!SetToBag(S)) = DOMAIN B \cup S
           /\ DOMAIN Report!(+)(B, Report!SetToBag(S)) = DOMAIN B \cup S
BY DEF Account!(+), Account!SetToBag, Report!(+), Report!SetToBag

LEMMA ListOfTyped ==
    /\ Changes = {"createTag", "deleteTag", "toggleScanTag", "toggleSchedule", "deleteSchedule",
                  "markAllRead", "handleNotifClick", "claimTarget", "verifyTarget", "removeTarget",
                  "generateAPIKey", "deleteAPIKey", "createShareLink", "revokeShareLink"}
    /\ \A c \in Changes : ListOf[c] \in Account!Lists
    /\ ListOf["createShareLink"] = "shares" /\ ListOf["revokeShareLink"] = "shares"
BY DEF Changes, ListOf, Account!ListOf, Account!Lists

\* A request that has just been sent.
New(r) ==
    /\ r = Account!Request(r.kind, r.about)
    /\ r.kind = "load" => r.about \in Account!Lists
    /\ r.kind = "change" => r.about \in Changes
    /\ r.kind \in {"scans", "scansThenSchedules"} => r.about \in Account!URLs

LEMMA NewIsUnseen ==
    ASSUME NEW r, New(r), ListsTyped
    PROVE  r.seen = Unseen /\ Pending(r)
BY DEF New, Pending, ListsTyped, Unseen, Account!Unseen, Account!Request

\* Requests that are sent, and answers that no list is waiting for.
LEMMA ListsStand ==
    ASSUME ListsTyped, Followed, UNCHANGED <<server, shown, missed>>,
           page' # "out" => page # "out",
           \A r \in DOMAIN pending' : r \in DOMAIN pending \/ New(r),
           \A r \in DOMAIN pending :
                r \in DOMAIN pending' \/ (r.kind # "load" /\ (r.kind = "change" => r.seen = Unseen))
    PROVE  ListsTyped' /\ Followed'
<1> DEFINE N == DOMAIN pending' \ DOMAIN pending
<1>1. \A r \in N : r.seen = Unseen /\ Pending(r)
  BY NewIsUnseen
<1>2. ListsTyped'
  BY <1>1 DEF ListsTyped, Pending
<1>3. ASSUME NEW L \in Account!Lists \ missed', page' # "out"
      PROVE  Brought(L)' \/ Newest(L)'
  <2>1. CASE Brought(L)
    <3>1. Brought(L)'
      BY <2>1 DEF Brought
    <3> QED
      BY <3>1
  <2>2. CASE Newest(L) /\ \E r \in N : r.kind = "load" /\ r.about = L
    <3>1. Brought(L)'
      BY <1>1, <2>2 DEF Brought
    <3> QED
      BY <3>1
  <2>3. CASE Newest(L) /\ ~\E r \in N : r.kind = "load" /\ r.about = L
    <3>1. Newest(L)'
      BY <2>3 DEF Newest
    <3> QED
      BY <3>1
  <2> QED
    BY <1>3, <2>1, <2>2, <2>3 DEF Followed
<1> QED
  BY <1>2, <1>3 DEF Followed

-------------------------------------------------------------------------------
(* The account's part keeps its invariant *)

USE DEF Account!listVars, Account!twofaVars, Account!scanVars

\* The frame of the actions that leave session and lists alone.
LEMMA AccountStands ==
    ASSUME AccountInv, UNCHANGED <<page, bell, server, shown, missed>>, user => user',
           AccountTyped',
           page = "in" \/ panels' \cap {"myScans", "settings"} \subseteq panels,
           \A r \in DOMAIN pending' :
                \/ r \in DOMAIN pending
                \/ New(r) /\ (r.kind = "change" => page = "in" \/ ListOf[r.about] = "shares"),
           \A r \in DOMAIN pending :
                r \in DOMAIN pending' \/ (r.kind # "load" /\ (r.kind = "change" => r.seen = Unseen))
    PROVE  AccountInv'
<1>1. ListsTyped' /\ Followed'
  BY ListsStand DEF AccountInv
<1>2. Session'
  BY DEF AccountInv, Session
<1> QED
  BY <1>1, <1>2 DEF AccountInv

\* A click that sends one request, or none.
LEMMA OneAsked ==
    ASSUME AccountInv, UNCHANGED <<page, user, bell, server, shown, missed>>,
           AccountTyped',
           page = "in" \/ panels' \cap {"myScans", "settings"} \subseteq panels,
           NEW kind, NEW about, Account!Ask(Account!Request(kind, about)),
           kind = "load" => about \in Account!Lists,
           kind = "change" => about \in Changes /\ (page = "in" \/ ListOf[about] = "shares"),
           kind \in {"scans", "scansThenSchedules"} => about \in Account!URLs
    PROVE  AccountInv'
<1> DEFINE r == Account!Request(kind, about)
<1>1. New(r) /\ r.kind = kind /\ r.about = about
  BY DEF New, Account!Request
<1>2. DOMAIN pending' = DOMAIN pending \cup {r}
  BY BagOfOneMore DEF Account!Ask
<1> HIDE DEF r
<1> QED
  BY <1>1, <1>2, AccountStands

LEMMA NothingAsked ==
    ASSUME AccountInv, UNCHANGED <<page, user, bell, server, shown, missed, pending>>,
           AccountTyped',
           page = "in" \/ panels' \cap {"myScans", "settings"} \subseteq panels
    PROVE  AccountInv'
BY AccountStands

LEMMA ChangesAsked ==
    ASSUME AccountInv,
           \/ Account!createTag \/ Account!deleteTag \/ Account!toggleScanTag
           \/ Account!toggleSchedule \/ Account!deleteSchedule
           \/ Account!markAllRead \/ Account!handleNotifClick
           \/ Account!claimTarget \/ Account!verifyTarget \/ Account!removeTarget
           \/ Account!generateAPIKey \/ Account!deleteAPIKey
           \/ Account!createShareLink \/ Account!revokeShareLink
    PROVE  AccountInv'
<1>1. PICK c \in Changes : Account!Change(c) /\ (page = "in" \/ ListOf[c] = "shares")
  BY ListOfTyped
     DEF Account!createTag, Account!deleteTag, Account!toggleScanTag, Account!toggleSchedule,
         Account!deleteSchedule, Account!markAllRead, Account!handleNotifClick,
         Account!claimTarget, Account!verifyTarget, Account!removeTarget,
         Account!generateAPIKey, Account!deleteAPIKey, Account!createShareLink,
         Account!revokeShareLink, Account!Within, Account!ChangeRow
<1>2. /\ Account!Ask(Account!Request("change", c))
      /\ UNCHANGED <<page, signedIn, user, bell, panels, server, shown, missed, enabled2FA,
                     twoFactorEnabled, block, scans, diffSelectA>>
  BY <1>1 DEF Account!Change
<1>3. AccountTyped'
  BY <1>2 DEF AccountInv, AccountTyped
<1> QED
  BY <1>1, <1>2, <1>3, OneAsked

LEMMA PanelsClicked ==
    ASSUME AccountInv,
           \/ Account!closeSettings \/ Account!closeMyScans \/ Account!closeShareModal
           \/ Account!openBulk \/ Account!closeBulk \/ Account!keyboardHelp
    PROVE  AccountInv'
<1>1. PICK p \in SUBSET Account!Panels :
            Account!Panel(p) /\ p \cap {"myScans", "settings"} \subseteq panels
  <2>1. panels \in SUBSET Account!Panels
    BY DEF AccountInv, AccountTyped
  <2> QED
    BY <2>1 DEF Account!closeSettings, Account!closeMyScans, Account!closeShareModal,
                Account!openBulk, Account!closeBulk, Account!keyboardHelp, Account!Panels
<1>2. /\ panels' = p
      /\ UNCHANGED <<page, signedIn, user, bell, server, shown, missed, pending, enabled2FA,
                     twoFactorEnabled, block, scans, diffSelectA>>
  BY <1>1 DEF Account!Panel
<1>3. AccountTyped'
  BY <1>2 DEF AccountInv, AccountTyped
<1> QED
  BY <1>1, <1>2, <1>3, NothingAsked

LEMMA ScansClicked ==
    ASSUME AccountInv,
           \/ Account!myScansToggle \/ Account!adminScans \/ Account!searchScans
           \/ Account!prevPage \/ Account!nextPage
    PROVE  AccountInv'
<1> DEFINE Views == [url: Account!URLs, page: Nat \ {0}, pages: Nat \ {0}]
<1>1. scans \in Views /\ panels \in SUBSET Account!Panels
  BY DEF AccountInv, AccountTyped
<1>2. \/ \E new \in Views, kind \in {"scans", "scansThenSchedules"} :
            /\ Account!MyScans(new, kind)
            /\ \/ panels' = panels
               \/ page = "in" /\ panels' = panels \cup {"myScans"}
      \/ /\ panels' = panels \ {"myScans"}
         /\ UNCHANGED <<page, signedIn, user, bell, server, shown, missed, pending, enabled2FA,
                        twoFactorEnabled, block, scans, diffSelectA>>
  <2>1. CASE Account!myScansToggle
    <3>1. [scans EXCEPT !.url = "/api/my-scans", !.page = 1] \in Views
      <4> DEFINE listed == [scans EXCEPT !.url = "/api/my-scans"]
      <4>1. "/api/my-scans" \in Account!URLs
        BY DEF Account!URLs
      <4>2. listed \in Views
        BY <1>1, <4>1
      <4>3. \A v \in Views : [v EXCEPT !.page = 1] \in Views
        OBVIOUS
      <4> HIDE DEF Views
      <4> QED
        BY <4>2, <4>3
    <3> HIDE DEF Views
    <3> QED
      BY <2>1, <3>1 DEF Account!myScansToggle
  <2>2. CASE Account!adminScans
    <3>1. [scans EXCEPT !.url = "/api/admin/scans", !.page = 1] \in Views
      <4> DEFINE listed == [scans EXCEPT !.url = "/api/admin/scans"]
      <4>1. "/api/admin/scans" \in Account!URLs
        BY DEF Account!URLs
      <4>2. listed \in Views
        BY <1>1, <4>1
      <4>3. \A v \in Views : [v EXCEPT !.page = 1] \in Views
        OBVIOUS
      <4> HIDE DEF Views
      <4> QED
        BY <4>2, <4>3
    <3> HIDE DEF Views
    <3> QED
      BY <2>2, <3>1 DEF Account!adminScans, Account!InMyScans
  <2>3. CASE Account!searchScans
    <3>1. [scans EXCEPT !.page = 1] \in Views
      BY <1>1 DEF Account!URLs
    <3> HIDE DEF Views
    <3> QED
      BY <2>3, <3>1 DEF Account!searchScans, Account!InMyScans
  <2>4. CASE Account!prevPage
    <3>1. [scans EXCEPT !.page = @ - 1] \in Views
      BY <1>1, <2>4 DEF Account!prevPage
    <3> HIDE DEF Views
    <3> QED
      BY <2>4, <3>1 DEF Account!prevPage, Account!InMyScans
  <2>5. CASE Account!nextPage
    <3>1. [scans EXCEPT !.page = @ + 1] \in Views
      BY <1>1, <2>5 DEF Account!nextPage
    <3> HIDE DEF Views
    <3> QED
      BY <2>5, <3>1 DEF Account!nextPage, Account!InMyScans
  <2> QED
    BY <2>1, <2>2, <2>3, <2>4, <2>5
<1>3. ASSUME NEW new \in Views, NEW kind \in {"scans", "scansThenSchedules"},
             Account!MyScans(new, kind),
             panels' = panels \/ (page = "in" /\ panels' = panels \cup {"myScans"})
      PROVE  AccountInv'
  <2>1. /\ scans' = new /\ Account!Ask(Account!Request(kind, new.url))
        /\ UNCHANGED <<page, signedIn, user, bell, server, shown, missed, enabled2FA,
                       twoFactorEnabled, block, diffSelectA>>
    BY <1>3 DEF Account!MyScans
  <2>2. AccountTyped'
    BY <1>3, <2>1 DEF AccountInv, AccountTyped, Account!Panels
  <2> QED
    BY <1>3, <2>1, <2>2, OneAsked
<1>4. ASSUME panels' = panels \ {"myScans"},
             UNCHANGED <<page, signedIn, user, bell, server, shown, missed, pending, enabled2FA,
                         twoFactorEnabled, block, scans, diffSelectA>>
      PROVE  AccountInv'
  <2>1. AccountTyped'
    BY <1>4 DEF AccountInv, AccountTyped
  <2> QED
    BY <1>4, <2>1, NothingAsked
<1> QED
  BY <1>2, <1>3, <1>4

\* Clicks that send one request that no list waits for, or load one.
LEMMA OthersAsked ==
    ASSUME AccountInv,
           \/ Account!logout \/ Account!loadNotifications \/ Account!openShares \/ Account!submitBulk
           \/ Account!twofaStart \/ Account!twofaConfirm \/ Account!twofaDisable
           \/ Account!saveNotificationSettings
    PROVE  AccountInv'
<1>1. \E kind \in {"load", "logout", "bulk", "setup", "enable", "disable", "settings"},
         about \in Account!Lists \cup {None} :
        /\ Account!Ask(Account!Request(kind, about))
        /\ kind = "load" => about \in Account!Lists
  BY DEF Account!logout, Account!loadNotifications, Account!openShares, Account!submitBulk,
         Account!twofaStart, Account!twofaConfirm, Account!twofaDisable,
         Account!saveNotificationSettings, Account!AskTwofa, Account!Load, Account!Lists
<1>2. /\ panels' \in {panels, panels \cup {"shares"}}
      /\ UNCHANGED <<page, signedIn, user, bell, server, shown, missed, enabled2FA,
                     twoFactorEnabled, block, scans, diffSelectA>>
  BY DEF Account!logout, Account!loadNotifications, Account!openShares, Account!submitBulk,
         Account!twofaStart, Account!twofaConfirm, Account!twofaDisable,
         Account!saveNotificationSettings, Account!AskTwofa
<1>3. AccountTyped'
  BY <1>2 DEF AccountInv, AccountTyped, Account!Panels
<1>4. page = "in" \/ panels' \cap {"myScans", "settings"} \subseteq panels
  BY <1>2
<1> QED
  BY <1>1, <1>2, <1>3, <1>4, OneAsked

LEMMA OthersClicked ==
    ASSUME AccountInv,
           \/ Account!closeDiff \/ Account!twofaBack \/ \E s \in Account!Rows : Account!compare(s)
    PROVE  AccountInv'
<1>1. /\ panels' \in {panels, panels \ {"diff"}, panels \cup {"diff"}}
      /\ diffSelectA' \in {diffSelectA, None} \cup Account!Rows
      /\ block' \in {block, "disable", "enable"}
      /\ UNCHANGED <<page, signedIn, user, bell, server, shown, missed, pending, enabled2FA,
                     twoFactorEnabled, scans>>
  BY DEF Account!closeDiff, Account!twofaBack, Account!compare, Account!refreshTwoFactorUI
<1>2. AccountTyped'
  BY <1>1 DEF AccountInv, AccountTyped, Account!Panels
<1> QED
  BY <1>1, <1>2, NothingAsked

LEMMA SettingsToggled ==
    ASSUME AccountInv, Account!settingsToggle
    PROVE  AccountInv'
<1>1. /\ page = "in"
      /\ panels' \in {panels \ {"settings"}, panels \cup {"settings"}}
      /\ UNCHANGED <<page, signedIn, user, bell, server, shown, missed, enabled2FA,
                     twoFactorEnabled, block, scans, diffSelectA>>
      /\ \/ pending' = pending
         \/ pending' = Account!(+)(pending, Account!SetToBag({Account!Load("apiKeys"), Account!Load("targets")}))
  <2>1. /\ page = "in"
        /\ panels' \in {panels \ {"settings"}, panels \cup {"settings"}}
        /\ UNCHANGED <<page, signedIn, user, bell, server, shown, missed, enabled2FA,
                       twoFactorEnabled, block, scans, diffSelectA>>
    BY DEF Account!settingsToggle
  <2>2. \/ pending' = pending
        \/ pending' = Account!(+)(pending, Account!SetToBag({Account!Load("apiKeys"), Account!Load("targets")}))
    BY DEF Account!settingsToggle
  <2> QED
    BY <2>1, <2>2
<1>2. AccountTyped'
  BY <1>1 DEF AccountInv, AccountTyped, Account!Panels
<1>3. DOMAIN pending \subseteq DOMAIN pending'
      /\ DOMAIN pending' \subseteq DOMAIN pending \cup {Account!Load("apiKeys"), Account!Load("targets")}
  <2> DEFINE both == {Account!Load("apiKeys"), Account!Load("targets")}
  <2>1. DOMAIN Account!(+)(pending, Account!SetToBag(both)) = DOMAIN pending \cup both
    BY BagOfBoth
  <2>2. DOMAIN pending' \in {DOMAIN pending, DOMAIN pending \cup both}
    BY <1>1, <2>1
  <2> HIDE DEF both
  <2>3. DOMAIN pending \subseteq DOMAIN pending' /\ DOMAIN pending' \subseteq DOMAIN pending \cup both
    BY <2>2
  <2> QED
    BY <2>3 DEF both
<1>4. \A r \in {Account!Load("apiKeys"), Account!Load("targets")} : New(r) /\ r.kind = "load"
  BY DEF New, Account!Load, Account!Request, Account!Lists
<1> QED
  BY <1>1, <1>2, <1>3, <1>4, AccountStands

LEMMA SessionBegins ==
    ASSUME AccountInv, Account!loadAuthState
    PROVE  AccountInv'
<1> DEFINE both == {Account!Load("tags"), Account!Load("notifications")}
<1>1. /\ page = "loading"
      /\ UNCHANGED <<signedIn, panels, server, shown, missed, enabled2FA, scans, diffSelectA>>
      /\ \/ /\ page' = "in" /\ user' = TRUE /\ bell' = TRUE /\ twoFactorEnabled' = enabled2FA
            /\ block' \in {block, "disable", "enable"}
            /\ pending' = Account!(+)(pending, Account!SetToBag(both))
         \/ page' = "out" /\ UNCHANGED <<user, bell, pending, twoFactorEnabled, block>>
  BY DEF Account!loadAuthState, Account!refreshTwoFactorUI
<1>2. AccountTyped'
  BY <1>1 DEF AccountInv, AccountTyped
<1>3. DOMAIN Account!(+)(pending, Account!SetToBag(both)) = DOMAIN pending \cup both
  BY BagOfBoth
<1>4. \A r \in both : New(r)
  BY DEF New, Account!Load, Account!Request, Account!Lists
<1> HIDE DEF both
<1>5. DOMAIN pending' \in {DOMAIN pending, DOMAIN pending \cup both}
  BY <1>1, <1>3
<1>6. ListsTyped' /\ Followed'
  BY <1>1, <1>4, <1>5, ListsStand DEF AccountInv
<1>7. Session'
  BY <1>1 DEF AccountInv, Session
<1> QED
  BY <1>2, <1>6, <1>7 DEF AccountInv

LEMMA NotificationCounted ==
    ASSUME AccountInv, Account!NotificationArrives
    PROVE  AccountInv'
<1>1. /\ server' = [server EXCEPT !["notifications"] = @ + 1]
      /\ missed' = missed \cup {"notifications"}
      /\ UNCHANGED <<page, signedIn, user, bell, panels, shown, pending, enabled2FA,
                     twoFactorEnabled, block, scans, diffSelectA>>
  BY DEF Account!NotificationArrives
<1>2. AccountTyped' /\ Session'
  BY <1>1 DEF AccountInv, AccountTyped, Session
<1>3. /\ server' \in [Account!Lists -> Nat]
      /\ \A L \in Account!Lists : server[L] <= server'[L]
      /\ \A L \in Account!Lists \ missed' : server'[L] = server[L] /\ L \notin missed
  BY <1>1 DEF AccountInv, ListsTyped, Account!Lists
<1>4. ListsTyped'
  <2>1. \A L \in Account!Lists : shown'[L] <= server'[L]
    BY <1>1, <1>3 DEF AccountInv, ListsTyped, Unseen, Account!Unseen
  <2>2. \A r \in DOMAIN pending' : Pending(r)'
    BY <1>1, <1>3 DEF AccountInv, ListsTyped, Pending, Unseen, Account!Unseen
  <2>3. missed' \subseteq Account!Lists
    BY <1>1 DEF AccountInv, ListsTyped, Account!Lists
  <2> QED
    BY <1>1, <1>3, <2>1, <2>2, <2>3 DEF AccountInv, ListsTyped
<1>5. Followed'
  BY <1>1, <1>3 DEF AccountInv, Followed, Brought, Newest
<1> QED
  BY <1>2, <1>4, <1>5 DEF AccountInv

\* A request is replaced by what it has become.
LEMMA Became ==
    ASSUME ListsTyped, NEW r \in DOMAIN pending, NEW v \in Nat, Account!Becomes(r, v)
    PROVE  LET x == [kind |-> r.kind, about |-> r.about, seen |-> v] IN
           /\ DOMAIN pending' \subseteq DOMAIN pending \cup {x}
           /\ (DOMAIN pending \ {r}) \cup {x} \subseteq DOMAIN pending'
<1> DEFINE x == [kind |-> r.kind, about |-> r.about, seen |-> v]
           B == Account!BagRemove(pending, r)
<1>1. [r EXCEPT !.seen = v] = x
  <2>1. r = [kind |-> r.kind, about |-> r.about, seen |-> r.seen]
    BY DEF ListsTyped, Pending
  <2> QED
    BY <2>1
<1>2. pending' = Account!BagAdd(B, x)
  BY <1>1 DEF Account!Becomes
<1>3. DOMAIN B \subseteq DOMAIN pending /\ DOMAIN pending \ {r} \subseteq DOMAIN B
  BY BagOfOneLess
<1> HIDE DEF B, x
<1>4. DOMAIN pending' = DOMAIN B \cup {x}
  BY <1>2, BagOfOneMore
<1> QED
  BY <1>3, <1>4 DEF x

LEMMA Executes ==
    ASSUME AccountInv, NEW r \in DOMAIN pending, Account!Execute(r)
    PROVE  AccountInv'
<1>1. /\ r.seen = Unseen
      /\ UNCHANGED <<page, signedIn, user, bell, panels, shown, enabled2FA, twoFactorEnabled,
                     block, scans, diffSelectA>>
  BY DEF Account!Execute, Unseen
<1>2. AccountTyped'
  BY <1>1 DEF AccountInv, AccountTyped
<1>3. Pending(r)
  BY DEF AccountInv, ListsTyped
<1>4. CASE r.kind = "load"
  <2> DEFINE x == [kind |-> r.kind, about |-> r.about, seen |-> server[r.about]]
  <2>1. Account!Becomes(r, server[r.about]) /\ UNCHANGED <<server, missed>>
    BY <1>4 DEF Account!Execute
  <2>2. r.about \in Account!Lists /\ server[r.about] \in Nat
    BY <1>3, <1>4 DEF AccountInv, ListsTyped, Pending
  <2>3. /\ DOMAIN pending' \subseteq DOMAIN pending \cup {x}
        /\ (DOMAIN pending \ {r}) \cup {x} \subseteq DOMAIN pending'
    BY <2>1, <2>2, Became DEF AccountInv
  <2>4. x.kind = "load" /\ x.about = r.about /\ x.seen = server[r.about] /\ Pending(x)
    BY <1>4, <2>2 DEF Pending
  <2> HIDE DEF x
  <2>5. ListsTyped'
    BY <1>1, <2>1, <2>3, <2>4 DEF AccountInv, ListsTyped, Pending
  <2>6. Followed'
    <3>1. ASSUME NEW L \in Account!Lists \ missed', page' # "out"
          PROVE  Brought(L)' \/ Newest(L)'
      <4>1. CASE L = r.about
        <5>1. Brought(L)'
          BY <2>1, <2>3, <2>4, <4>1 DEF Brought
        <5> QED
          BY <5>1
      <4>2. CASE L # r.about /\ Brought(L)
        <5>1. Brought(L)'
          BY <1>4, <2>1, <2>3, <4>2 DEF Brought
        <5> QED
          BY <5>1
      <4>3. CASE L # r.about /\ Newest(L)
        <5>1. Newest(L)'
          BY <1>1, <2>1, <2>3, <2>4, <4>3 DEF Newest
        <5> QED
          BY <5>1
      <4> QED
        BY <1>1, <2>1, <3>1, <4>1, <4>2, <4>3 DEF AccountInv, Followed
    <3> QED
      BY <3>1 DEF Followed
  <2>7. Session'
    BY <1>1, <1>4, <2>3, <2>4 DEF AccountInv, Session
  <2> QED
    BY <1>2, <2>5, <2>6, <2>7 DEF AccountInv
<1>5. CASE r.kind = "change"
  <2> DEFINE list == ListOf[r.about]
  <2>1. /\ server' = [L \in Account!Lists |-> server[L] + IF L \in Account!Touched(r.about) THEN 1 ELSE 0]
        /\ Account!Becomes(r, server'[list])
        /\ missed' = missed \cup (Account!Touched(r.about) \ {list})
    BY <1>5 DEF Account!Execute, ListOf
  <2>2. r.about \in Changes /\ list \in Account!Lists
    BY <1>3, <1>5, ListOfTyped DEF Pending
  <2>3. list \in Account!Touched(r.about) /\ Account!Touched(r.about) \subseteq Account!Lists
    BY <2>2 DEF Account!Touched, Account!ListOf, Account!Lists, ListOf
  <2>4. /\ server' \in [Account!Lists -> Nat] /\ server'[list] \in Nat
        /\ \A L \in Account!Lists : server[L] <= server'[L]
        /\ \A L \in Account!Lists \ missed' : L # list => server'[L] = server[L] /\ L \notin missed
        /\ missed' \subseteq Account!Lists /\ missed \subseteq missed'
    <3>1. server \in [Account!Lists -> Nat] /\ missed \subseteq Account!Lists
      BY DEF AccountInv, ListsTyped
    <3> QED
      BY <2>1, <2>2, <2>3, <3>1
  <2>version. PICK v \in Nat : v = server'[list]
    BY <2>4
  <2> DEFINE x == [kind |-> r.kind, about |-> r.about, seen |-> v]
  <2>5. /\ DOMAIN pending' \subseteq DOMAIN pending \cup {x}
        /\ (DOMAIN pending \ {r}) \cup {x} \subseteq DOMAIN pending'
    BY <2>1, <2>version, Became DEF AccountInv
  <2>6. x.kind = "change" /\ x.about = r.about /\ x.seen \in Nat
        /\ x = [kind |-> x.kind, about |-> x.about, seen |-> x.seen]
    BY <1>5
  <2> HIDE DEF x, list
  <2>7. ListsTyped'
    <3>1. \A L \in Account!Lists : shown'[L] <= server'[L]
      BY <1>1, <2>4 DEF AccountInv, ListsTyped, Unseen, Account!Unseen
    <3>2. ASSUME NEW s \in DOMAIN pending
          PROVE  Pending(s)'
      BY <2>4 DEF AccountInv, ListsTyped, Pending, Unseen, Account!Unseen
    <3>3. Pending(x)'
      BY <2>2, <2>6 DEF Pending
    <3> QED
      BY <1>1, <2>4, <2>5, <3>1, <3>2, <3>3 DEF AccountInv, ListsTyped
  <2>8. Followed'
    <3>1. ASSUME NEW L \in Account!Lists \ missed', page' # "out"
          PROVE  Brought(L)' \/ Newest(L)'
      <4>1. CASE L = list
        <5>1. Brought(L)'
          BY <2>5, <2>6, <4>1 DEF Brought, list, Unseen, Account!Unseen
        <5> QED
          BY <5>1
      <4>2. CASE L # list /\ Brought(L)
        <5>1. Brought(L)'
          BY <1>1, <1>5, <2>4, <2>5, <3>1, <4>2 DEF Brought
        <5> QED
          BY <5>1
      <4>3. CASE L # list /\ Newest(L)
        <5>1. Newest(L)'
          BY <1>1, <2>4, <2>5, <2>6, <3>1, <4>3 DEF Newest
        <5> QED
          BY <5>1
      <4> QED
        BY <1>1, <2>4, <3>1, <4>1, <4>2, <4>3 DEF AccountInv, Followed
    <3> QED
      BY <3>1 DEF Followed
  <2>9. Session'
    BY <1>1, <1>5, <2>5, <2>6 DEF AccountInv, Session
  <2> QED
    BY <1>2, <2>7, <2>8, <2>9 DEF AccountInv
<1> QED
  BY <1>4, <1>5 DEF Account!Execute

LEMMA LoadAnswered ==
    ASSUME AccountInv, NEW r \in DOMAIN pending, Account!loadAnswered(r),
           UNCHANGED <<page, signedIn, user, bell, panels, enabled2FA, twoFactorEnabled, block,
                       scans, diffSelectA>>,
           DOMAIN pending' \subseteq DOMAIN pending, DOMAIN pending \ {r} \subseteq DOMAIN pending'
    PROVE  AccountInv'
<1> DEFINE M == r.about
<1>1. Pending(r) /\ r.kind = "load" /\ UNCHANGED server
  BY DEF Account!loadAnswered, AccountInv, ListsTyped
<1>2. M \in Account!Lists /\ r.seen \in Nat \cup {Unseen} /\ r.seen <= server[M]
  BY <1>1 DEF Pending
<1>3. server \in [Account!Lists -> Nat] /\ shown \in [Account!Lists -> Nat \cup {Unseen}]
      /\ missed \subseteq Account!Lists
  BY DEF AccountInv, ListsTyped
<1> HIDE DEF M
<1>4. \/ /\ r.seen # Unseen
         /\ shown' = [shown EXCEPT ![M] = r.seen]
         /\ missed' = IF r.seen = server[M] THEN missed \ {M}
                      ELSE IF r.seen < shown[M] THEN missed \cup {M} ELSE missed
      \/ /\ shown' \in {shown, [shown EXCEPT ![M] = Unseen]}
         /\ missed' = missed \cup {M}
  BY DEF Account!loadAnswered, Unseen, M
<1>5. AccountTyped' /\ Session'
  BY DEF AccountInv, AccountTyped, Session
<1>6. /\ shown' \in [Account!Lists -> Nat \cup {Unseen}]
      /\ \A L \in Account!Lists : shown'[L] <= server'[L]
      /\ missed' \subseteq Account!Lists
      /\ \A L \in Account!Lists : L # M => shown'[L] = shown[L] /\ (L \in missed <=> L \in missed')
  BY <1>1, <1>2, <1>3, <1>4 DEF AccountInv, ListsTyped, Unseen, Account!Unseen
<1>7. ListsTyped'
  BY <1>1, <1>6 DEF AccountInv, ListsTyped, Pending
<1>8. ASSUME NEW L \in Account!Lists \ missed', page' # "out"
      PROVE  Brought(L)' \/ Newest(L)'
  <2>1. CASE L # M /\ Brought(L)
    <3>1. Brought(L)'
      BY <1>1, <2>1 DEF Brought, M
    <3> QED
      BY <3>1
  <2>2. CASE L # M /\ Newest(L)
    <3>1. Newest(L)'
      BY <1>1, <1>6, <1>8, <2>2 DEF Newest
    <3> QED
      BY <3>1
  <2>3. CASE L = M /\ r.seen = server[M]
    <3>1. shown'[M] = server[M]
      BY <1>2, <1>3, <1>4, <1>8, <2>3
    <3>2. \A s \in DOMAIN pending : s.kind = "load" /\ s.about = M =>
            s.seen \in Nat \cup {Unseen} /\ s.seen <= server[M]
      BY DEF AccountInv, ListsTyped, Pending
    <3>3. CASE \E s \in DOMAIN pending' : s.kind = "load" /\ s.about = M /\ s.seen = server[M]
      <4>1. Brought(L)'
        BY <1>1, <2>3, <3>3 DEF Brought
      <4> QED
        BY <4>1
    <3>4. CASE ~\E s \in DOMAIN pending' : s.kind = "load" /\ s.about = M /\ s.seen = server[M]
      <4>1. Newest(L)'
        BY <1>1, <1>2, <1>3, <2>3, <3>1, <3>2, <3>4 DEF Newest, Unseen, Account!Unseen
      <4> QED
        BY <4>1
    <3> QED
      BY <3>3, <3>4
  <2>4. CASE L = M /\ r.seen # server[M]
    <3>1. r.seen # Unseen /\ ~(r.seen < shown[M]) /\ M \notin missed
      BY <1>4, <1>8, <2>4
    <3>2. Brought(M)
      BY <1>1, <1>2, <1>8, <3>1 DEF AccountInv, Followed, Newest, M
    <3>3. Brought(M)'
      <4>1. PICK s \in DOMAIN pending :
                \/ s.kind = "load" /\ s.about = M /\ s.seen \in {Unseen, server[M]}
                \/ s.kind = "change" /\ ListOf[s.about] = M /\ s.seen # Unseen
        BY <3>2 DEF Brought
      <4>2. s \in DOMAIN pending'
        BY <1>1, <2>4, <3>1, <4>1
      <4> QED
        BY <1>1, <4>1, <4>2 DEF Brought
    <3> QED
      BY <2>4, <3>3
  <2> QED
    BY <1>6, <1>8, <2>1, <2>2, <2>3, <2>4 DEF AccountInv, Followed
<1> QED
  BY <1>5, <1>7, <1>8 DEF AccountInv, Followed

LEMMA ChangeAnswered ==
    ASSUME AccountInv, NEW r \in DOMAIN pending, NEW next, Account!changeAnswered(r, next),
           \A s \in next : New(s) /\ s.kind = "load",
           UNCHANGED <<page, signedIn, user, bell, panels, enabled2FA, twoFactorEnabled, block,
                       scans, diffSelectA>>,
           DOMAIN pending' \subseteq DOMAIN pending \cup next,
           (DOMAIN pending \ {r}) \cup next \subseteq DOMAIN pending'
    PROVE  AccountInv'
<1> DEFINE M == ListOf[r.about]
<1>1. /\ r.kind = "change" /\ UNCHANGED <<server, shown>>
      /\ \/ /\ next = IF Account!Reloads(r.about, r.seen # Unseen) THEN Account!Loads(M) ELSE {}
            /\ missed' = missed
         \/ /\ next = {}
            /\ missed' = IF r.seen # Unseen THEN missed \cup {M} ELSE missed
  BY DEF Account!changeAnswered, ListOf, Unseen
<1>2. AccountTyped'
  BY DEF AccountInv, AccountTyped
<1>3. CASE r.seen = Unseen
  <2>1. UNCHANGED missed
    BY <1>1, <1>3
  <2> QED
    BY <1>1, <1>2, <1>3, <2>1, AccountStands
<1>4. CASE r.seen # Unseen
  <2>1. r.about \in Changes /\ M \in Account!Lists
    BY <1>1, ListOfTyped DEF AccountInv, ListsTyped, Pending
  <2>2. page # "out" => \/ missed' = missed /\ Account!Load(M) \in next
                        \/ missed' = missed \cup {M}
    <3>1. page = "in" => user'
      BY DEF AccountInv, Session
    <3>2. page = "loading" => M = "shares"
      BY <1>1 DEF AccountInv, Session
    <3>3. page \in {"loading", "in", "out"}
      BY DEF AccountInv, AccountTyped
    <3> HIDE DEF M
    <3> QED
      BY <1>1, <1>4, <3>1, <3>2, <3>3 DEF Account!Reloads, Account!Loads
  <2>3. missed \subseteq missed' /\ missed' \subseteq missed \cup {M}
    BY <1>1
  <2>4. \A s \in next : s.seen = Unseen /\ Pending(s)
    BY NewIsUnseen DEF AccountInv
  <2>5. ListsTyped'
    BY <1>1, <2>1, <2>3, <2>4 DEF AccountInv, ListsTyped, Pending
  <2>6. Session'
    BY DEF AccountInv, Session
  <2>7. ASSUME NEW L \in Account!Lists \ missed', page' # "out"
        PROVE  Brought(L)' \/ Newest(L)'
    <3>1. CASE L = M \/ \E s \in next : s.about = L
      <4>1. \E s \in DOMAIN pending' : s.kind = "load" /\ s.about = L /\ s.seen = Unseen
        <5>1. CASE L = M
          <6>1. Account!Load(M) \in next
            BY <2>2, <2>7, <5>1
          <6>2. Account!Load(M).about = M
            BY DEF Account!Load, Account!Request
          <6> QED
            BY <2>4, <5>1, <6>1, <6>2
        <5>2. CASE \E s \in next : s.about = L
          BY <2>4, <5>2
        <5> QED
          BY <3>1, <5>1, <5>2
      <4>2. Brought(L)'
        BY <4>1 DEF Brought
      <4> QED
        BY <4>2
    <3>2. CASE L # M /\ Brought(L)
      <4>1. Brought(L)'
        BY <1>1, <3>2 DEF Brought
      <4> QED
        BY <4>1
    <3>3. CASE L # M /\ Newest(L) /\ ~\E s \in next : s.about = L
      <4>1. Newest(L)'
        BY <1>1, <3>3 DEF Newest
      <4> QED
        BY <4>1
    <3> QED
      BY <2>3, <2>7, <3>1, <3>2, <3>3 DEF AccountInv, Followed
  <2> QED
    BY <1>2, <2>5, <2>6, <2>7 DEF AccountInv, Followed
<1> QED
  BY <1>3, <1>4

\* Answers that no list is waiting for.
LEMMA OthersAnswered ==
    ASSUME AccountInv, NEW r \in DOMAIN pending, NEW next,
           \/ Account!scansAnswered(r, next) \/ Account!logoutAnswered(r) \/ Account!bulkAnswered(r)
           \/ Account!setupAnswered(r) \/ Account!enableAnswered(r) \/ Account!disableAnswered(r)
           \/ Account!settingsAnswered(r),
           \A s \in next : New(s) /\ s.kind = "load",
           DOMAIN pending' \subseteq DOMAIN pending \cup next,
           (DOMAIN pending \ {r}) \cup next \subseteq DOMAIN pending'
    PROVE  AccountInv'
<1> USE DEF Account!scansAnswered, Account!logoutAnswered, Account!bulkAnswered,
            Account!setupAnswered, Account!enableAnswered, Account!disableAnswered,
            Account!settingsAnswered, Account!refreshTwoFactorUI
<1>1. r.kind \notin {"load", "change"} /\ UNCHANGED <<server, shown, missed>>
  OBVIOUS
<1>2. scans' \in [url: Account!URLs, page: Nat \ {0}, pages: Nat \ {0}]
  <2>1. scans \in [url: Account!URLs, page: Nat \ {0}, pages: Nat \ {0}]
    BY DEF AccountInv, AccountTyped
  <2>2. CASE Account!scansAnswered(r, next)
    <3>1. r.about \in Account!URLs
      BY <2>2 DEF AccountInv, ListsTyped, Pending
    <3>2. Pages[r.about] \in Nat \ {0}
      BY <3>1, PagesAssumption DEF Account!URLs
    <3>3. scans' = scans \/ scans' = [scans EXCEPT !.pages = Pages[r.about]]
      BY <2>2
    <3> QED
      BY <2>1, <3>2, <3>3
  <2>3. CASE UNCHANGED scans
    BY <2>1, <2>3
  <2> QED
    BY <2>2, <2>3
<1>3. /\ page' = page \/ page' = "out"
      /\ signedIn' \in {signedIn, FALSE} /\ user' \in BOOLEAN /\ bell' \in {bell, FALSE}
      /\ enabled2FA' \in BOOLEAN /\ twoFactorEnabled' \in BOOLEAN
      /\ block' \in {"setup", "recovery", "disable", "enable", block}
      /\ panels' \subseteq panels /\ diffSelectA' = diffSelectA
  BY DEF AccountInv, AccountTyped
<1>4. AccountTyped'
  <2>1. page' \in {"loading", "in", "out"} /\ panels' \subseteq Account!Panels
        /\ diffSelectA' \in Account!Rows \cup {None}
        /\ block' \in {"none", "enable", "setup", "recovery", "disable"}
    BY <1>3 DEF AccountInv, AccountTyped
  <2>2. signedIn' \in BOOLEAN /\ bell' \in BOOLEAN
    BY <1>3 DEF AccountInv, AccountTyped
  <2> QED
    BY <1>2, <1>3, <2>1, <2>2 DEF AccountTyped
<1>5. CASE page' = page
  <2>1. CASE Account!logoutAnswered(r) /\ page = "out"
    <3>1. ListsTyped' /\ Followed'
      BY <1>1, <1>5, ListsStand DEF AccountInv
    <3>2. Session'
      BY <1>3, <1>5, <2>1 DEF AccountInv, Session
    <3> QED
      BY <1>4, <3>1, <3>2 DEF AccountInv
  <2>2. CASE ~(Account!logoutAnswered(r) /\ page = "out")
    <3>1. UNCHANGED bell /\ (user => user') /\ panels' \cap {"myScans", "settings"} \subseteq panels
      BY <1>3, <1>5, <2>2 DEF AccountInv, AccountTyped
    <3> QED
      BY <1>1, <1>4, <1>5, <3>1, AccountStands
  <2> QED
    BY <2>1, <2>2
<1>6. CASE page' # page
  <2>1. /\ page' = "out" /\ bell' = FALSE
        /\ panels' = panels \ {"myScans", "settings"}
    BY <1>6
  <2>2. ListsTyped' /\ Followed'
    BY <1>1, <2>1, ListsStand DEF AccountInv
  <2>3. Session'
    BY <2>1 DEF Session
  <2> QED
    BY <1>4, <2>2, <2>3 DEF AccountInv
<1> QED
  BY <1>5, <1>6

LEMMA AccountAnswers ==
    ASSUME AccountInv, NEW r \in DOMAIN pending, Account!Answered(r)
    PROVE  AccountInv'
<1>1. PICK next \in Account!Following(r) :
        /\ \/ Account!loadAnswered(r) /\ next = {}
              /\ UNCHANGED <<page, signedIn, user, bell, panels, enabled2FA, twoFactorEnabled,
                             block, scans, diffSelectA>>
           \/ Account!changeAnswered(r, next)
              /\ UNCHANGED <<page, signedIn, user, bell, panels, enabled2FA, twoFactorEnabled,
                             block, scans, diffSelectA>>
           \/ Account!scansAnswered(r, next) \/ Account!logoutAnswered(r)
           \/ Account!bulkAnswered(r) \/ Account!setupAnswered(r) \/ Account!enableAnswered(r)
           \/ Account!disableAnswered(r) \/ Account!settingsAnswered(r)
        /\ pending' = Account!(+)(Account!BagRemove(pending, r), Account!SetToBag(next))
  BY DEF Account!Answered
<1>2. \A s \in next : New(s) /\ s.kind = "load"
  <2>1. r.kind = "change" => ListOf[r.about] \in Account!Lists
    BY ListOfTyped DEF AccountInv, ListsTyped, Pending
  <2>2. {"scanTags", "schedules"} \subseteq Account!Lists
    BY DEF Account!Lists
  <2> QED
    BY <2>1, <2>2 DEF Account!Following, New, Account!Load, Account!Request, ListOf
<1>3. DOMAIN pending' = DOMAIN Account!BagRemove(pending, r) \cup next
  BY <1>1, BagOfBoth
<1>4. /\ DOMAIN pending' \subseteq DOMAIN pending \cup next
      /\ (DOMAIN pending \ {r}) \cup next \subseteq DOMAIN pending'
  BY <1>3, BagOfOneLess
<1>5. CASE /\ Account!loadAnswered(r) /\ next = {}
           /\ UNCHANGED <<page, signedIn, user, bell, panels, enabled2FA, twoFactorEnabled, block,
                          scans, diffSelectA>>
  BY <1>4, <1>5, LoadAnswered
<1> QED
  BY <1>1, <1>2, <1>4, <1>5, ChangeAnswered, OthersAnswered

LEMMA AccountStep ==
    ASSUME AccountInv, Account!AccountNext
    PROVE  AccountInv'
BY SessionBegins, NotificationCounted, ChangesAsked, PanelsClicked, ScansClicked, OthersAsked,
   OthersClicked, SettingsToggled, Executes, AccountAnswers
   DEF Account!AccountNext, Account!UserSteps

\* Nothing returns to the page that is being loaded, and no one signs in again.
LEMMA PageOnlyEnds ==
    ASSUME AccountInv, Account!AccountNext
    PROVE  page = "in" => page' \in {"in", "out"}
<1>1. CASE Account!loadAuthState \/ \E r \in DOMAIN pending : Account!Execute(r) \/ Account!Answered(r)
  BY <1>1 DEF Account!loadAuthState, Account!Execute, Account!Answered, Account!scansAnswered,
              Account!logoutAnswered, Account!bulkAnswered, Account!setupAnswered,
              Account!enableAnswered, Account!disableAnswered, Account!settingsAnswered
<1>2. CASE \/ Account!createTag \/ Account!deleteTag \/ Account!toggleScanTag
           \/ Account!toggleSchedule \/ Account!deleteSchedule
           \/ Account!markAllRead \/ Account!handleNotifClick
           \/ Account!claimTarget \/ Account!verifyTarget \/ Account!removeTarget
           \/ Account!generateAPIKey \/ Account!deleteAPIKey
           \/ Account!createShareLink \/ Account!revokeShareLink
  BY <1>2
     DEF Account!createTag, Account!deleteTag, Account!toggleScanTag, Account!toggleSchedule,
         Account!deleteSchedule, Account!markAllRead, Account!handleNotifClick,
         Account!claimTarget, Account!verifyTarget, Account!removeTarget,
         Account!generateAPIKey, Account!deleteAPIKey, Account!createShareLink,
         Account!revokeShareLink, Account!ChangeRow, Account!Change
<1>3. CASE \/ Account!logout \/ Account!loadNotifications \/ Account!NotificationArrives
           \/ Account!settingsToggle \/ Account!closeSettings \/ Account!closeMyScans
           \/ Account!openShares \/ Account!closeShareModal \/ Account!openBulk \/ Account!closeBulk
           \/ Account!submitBulk \/ Account!keyboardHelp
  BY <1>3
     DEF Account!logout, Account!loadNotifications, Account!NotificationArrives,
         Account!settingsToggle, Account!closeSettings, Account!closeMyScans, Account!openShares,
         Account!closeShareModal, Account!openBulk, Account!closeBulk, Account!submitBulk,
         Account!keyboardHelp, Account!Panel
<1>4. CASE \/ Account!myScansToggle \/ Account!adminScans \/ Account!searchScans
           \/ Account!prevPage \/ Account!nextPage
  BY <1>4
     DEF Account!myScansToggle, Account!adminScans, Account!searchScans, Account!prevPage,
         Account!nextPage, Account!InMyScans, Account!MyScans
<1>5. CASE \/ Account!closeDiff \/ Account!twofaStart \/ Account!twofaConfirm
           \/ Account!twofaDisable \/ Account!twofaBack \/ Account!saveNotificationSettings
           \/ \E s \in Account!Rows : Account!compare(s)
  BY <1>5
     DEF Account!closeDiff, Account!twofaStart, Account!twofaConfirm, Account!twofaDisable,
         Account!AskTwofa, Account!twofaBack, Account!saveNotificationSettings, Account!compare
<1> QED
  BY <1>1, <1>2, <1>3, <1>4, <1>5 DEF Account!AccountNext, Account!UserSteps

-------------------------------------------------------------------------------
(* The report keeps its invariant *)

USE DEF Report!tabVars, Report!boardVars, Report!mapVars, Report!gridVars, Report!scanVars
USE FoundAssumption

LEMMA DrawingOf ==
    ASSUME NEW s, NEW mode, NEW identity
    PROVE  Report!Drawing(s, mode, identity).of = s
BY DEF Report!Drawing, Report!renderConnectionsGraph, Report!SourcesGraph

LEMMA CardsOf ==
    ASSUME NEW s, NEW f
    PROVE  Report!Cards(s, f).of = s
BY DEF Report!Cards

\* A draw of the graph shows it as it is now, or waits for d3.
LEMMA GraphDrawn ==
    ASSUME GraphInv, NEW s \in DOMAIN Found, Report!renderD3Graph(s),
           tab' \in Report!Tabs, graphMode' \in {"connections", "sources"}, nodeDetail' \in {nodeDetail, None}
    PROVE  /\ GraphInv'
           /\ IF waiting' # None THEN waiting' = s ELSE graph' = Report!Drawing(s, graphMode', profile')
<1>1. Report!Drawing(s, graphMode', profile').of = s
  BY DrawingOf
<1>2. s # None
  OBVIOUS
<1>3. CASE scripts.d3 = "loaded"
  <2>1. graph' = Report!Drawing(s, graphMode', profile') /\ UNCHANGED <<waiting, scripts>> /\ waiting = None
    BY <1>3 DEF Report!renderD3Graph, GraphInv
  <2> QED
    BY <1>1, <1>3, <2>1 DEF GraphInv
<1>4. CASE scripts.d3 # "loaded"
  <2>1. waiting' = s /\ scripts' = [scripts EXCEPT !.d3 = "loading"] /\ UNCHANGED graph
    BY <1>4 DEF Report!renderD3Graph
  <2> QED
    BY <1>2, <1>4, <2>1 DEF GraphInv, Progress, Scan
<1> QED
  BY <1>3, <1>4

LEMMA SurfaceDrawn ==
    ASSUME SurfaceInv, NEW s \in DOMAIN Found, Report!renderAttackSurface(s)
    PROVE  SurfaceInv' /\ surface'.of = s /\ surface'.box = surface.box + 1
BY DEF SurfaceInv, Report!renderAttackSurface, Scan

\* What is on its way keeps its place when the box stands, or a new one replaces it.
LEMMA AskedStays ==
    ASSUME SurfaceInv, AskedInv,
           \/ surface'.of = surface.of /\ surface'.box = surface.box
           \/ surface'.box = surface.box + 1,
           \A r \in DOMAIN asked' : r \in DOMAIN asked \/ Placed(r, surface')
    PROVE  AskedInv'
<1>1. ASSUME NEW r \in DOMAIN asked
      PROVE  Placed(r, surface')
  BY <1>1 DEF AskedInv, Placed, SurfaceInv
<1> QED
  BY <1>1 DEF AskedInv

LEMMA NewPlaced ==
    ASSUME SurfaceInv', NEW kind, kind # "fixes", NEW s \in DOMAIN Found
    PROVE  Placed(Report!Request(kind, s), surface')
BY DEF Placed, Report!Request, SurfaceInv

LEMMA FixesPlaced ==
    ASSUME SurfaceInv', surface'.of \in DOMAIN Found
    PROVE  Placed(Report!loadRemediation, surface')
BY DEF Placed, Report!loadRemediation, SurfaceInv

\* The tab that is open is drawn from the report.
LEMMA TabDrawn ==
    ASSUME GraphInv, SurfaceInv, NEW s \in DOMAIN Found, Report!DrawTab(s),
           tab' \in Report!Tabs, graphMode' \in {"connections", "sources"}, UNCHANGED nodeDetail
    PROVE  /\ GraphInv' /\ SurfaceInv'
           /\ tab' = "graph" => IF waiting' # None THEN waiting' = s
                                ELSE graph' = Report!Drawing(s, graphMode', profile')
           /\ tab' = "surface" => surface'.of = s
           /\ UNCHANGED surface \/ surface'.box = surface.box + 1
<1>1. GraphInv' /\ (tab' = "graph" => IF waiting' # None THEN waiting' = s
                                      ELSE graph' = Report!Drawing(s, graphMode', profile'))
  <2>1. CASE tab' = "graph"
    BY <2>1, GraphDrawn DEF Report!DrawTab
  <2>2. CASE tab' # "graph"
    BY <2>2 DEF Report!DrawTab, GraphInv
  <2> QED
    BY <2>1, <2>2
<1>2. /\ SurfaceInv' /\ (tab' = "surface" => surface'.of = s)
      /\ UNCHANGED surface \/ surface'.box = surface.box + 1
  <2>1. CASE tab' = "surface"
    BY <2>1, SurfaceDrawn DEF Report!DrawTab
  <2>2. CASE tab' # "surface"
    BY <2>2 DEF Report!DrawTab, SurfaceInv
  <2> QED
    BY <2>1, <2>2
<1> QED
  BY <1>1, <1>2

LEMMA ResultsDisplayed ==
    ASSUME PageTyped, GraphInv, SurfaceInv, NEW s \in DOMAIN Found, Report!displayResults(s)
    PROVE  /\ GraphInv' /\ SurfaceInv' /\ Current'
           /\ lastScanData' = s /\ drawn' = TRUE /\ resultsPanel' = TRUE /\ UNCHANGED profile
           /\ notes' = Report!Missing(s) /\ UNCHANGED tab
           /\ UNCHANGED surface \/ surface'.box = surface.box + 1
           /\ tab' = "surface" => surface'.of = s
<1>1. /\ lastScanData' = s /\ drawn' = TRUE /\ resultsPanel' = TRUE /\ Report!reRenderGrid
      /\ notes' = Report!Missing(s) /\ UNCHANGED <<tab, graphMode, nodeDetail, profile>> /\ Report!DrawTab(s)
  BY DEF Report!displayResults
<1>2. tab' \in Report!Tabs /\ graphMode' \in {"connections", "sources"}
  BY <1>1 DEF GraphInv
<1>3. /\ GraphInv' /\ SurfaceInv'
      /\ tab' = "graph" => IF waiting' # None THEN waiting' = s
                           ELSE graph' = Report!Drawing(s, graphMode', profile')
      /\ tab' = "surface" => surface'.of = s
      /\ UNCHANGED surface \/ surface'.box = surface.box + 1
  BY <1>1, <1>2, TabDrawn
<1>4. grid' = Report!Cards(s, filter') /\ s # None
  BY <1>1 DEF Report!reRenderGrid
<1>5. Current'
  BY <1>1, <1>3, <1>4 DEF Current
<1> QED
  BY <1>1, <1>3, <1>5

\* What follows a report that is drawn.
LEMMA FollowPlaced ==
    ASSUME SurfaceInv', NEW s \in DOMAIN Found, tab' = "surface" => surface'.of = s
    PROVE  \A r \in Report!Follow(s) : Placed(r, surface')
<1>1. /\ Placed(Report!Request("identity", s), surface') /\ Placed(Report!Request("diff", s), surface')
  BY NewPlaced
<1>2. tab' = "surface" => Placed(Report!loadRemediation, surface')
  BY FixesPlaced
<1> QED
  BY <1>1, <1>2 DEF Report!Follow

LEMMA ThenAsked ==
    ASSUME NEW r, NEW next, Report!Then(r, next)
    PROVE  \A x \in DOMAIN asked' : x \in DOMAIN asked \/ x \in next
<1>1. /\ asked' = Report!(+)(Report!BagRemove(asked, r), Report!SetToBag(next))
      /\ DOMAIN asked' = DOMAIN Report!BagRemove(asked, r) \cup next
  BY BagOfBoth DEF Report!Then
<1> QED
  BY <1>1, BagOfOneLess

LEMMA MissingTyped ==
    ASSUME NEW s \in DOMAIN Found
    PROVE  /\ Report!Missing(s) = [unavailable |-> Report!Missing(s).unavailable,
                                   skipped |-> Report!Missing(s).skipped]
           /\ Report!Missing(s).unavailable \in Scan /\ Report!Missing(s).skipped \in Scan
BY DEF Report!Missing, Scan

\* What leaves the report's data, graph, surface and requests alone.
LEMMA ReportStands ==
    ASSUME ReportInv, PageTyped', TimelineInv', Current',
           UNCHANGED <<tab, graphMode, graph, waiting, nodeDetail, scripts, surface, asked>>
    PROVE  ReportInv'
<1>1. GraphInv' /\ SurfaceInv'
  BY DEF ReportInv, GraphInv, SurfaceInv
<1>2. AskedInv'
  BY DEF ReportInv, AskedInv
<1> QED
  BY <1>1, <1>2 DEF ReportInv

LEMMA FiltersChanged ==
    ASSUME ReportInv,
           \/ Report!typeFilter \/ Report!sortButton \/ Report!confidenceFilter \/ Report!clearHistory
           \/ \E t : Report!chooseType(t)
           \/ \E sort \in Report!Sorts : Report!chooseSort(sort)
    PROVE  ReportInv'
<1>1. CASE Report!typeFilter \/ Report!sortButton \/ Report!clearHistory
  <2>1. /\ UNCHANGED <<lastScanData, drawn, resultsPanel, live, profile, timeline, notes, filter, grid, tab,
                      graphMode, graph, waiting, nodeDetail, scripts, surface, opening, seeded, map,
                      leafletLoaded, asked>>
        /\ menus' \in {{}, menus \ {"type"}, menus \cup {"type"}, menus \ {"sort"}, menus \cup {"sort"}}
    BY <1>1 DEF Report!typeFilter, Report!sortButton, Report!clearHistory, Report!Click
  <2>2. PageTyped'
    BY <2>1 DEF ReportInv, PageTyped
  <2>3. TimelineInv' /\ Current'
    BY <2>1 DEF ReportInv, TimelineInv, Current
  <2> QED
    BY <2>1, <2>2, <2>3, ReportStands
<1>2. CASE \/ Report!confidenceFilter \/ \E t : Report!chooseType(t)
           \/ \E sort \in Report!Sorts : Report!chooseSort(sort)
  <2>1. /\ UNCHANGED <<lastScanData, drawn, resultsPanel, live, profile, timeline, notes, tab,
                      graphMode, graph, waiting, nodeDetail, scripts, surface, opening, seeded, map,
                      leafletLoaded, asked>>
        /\ menus' = {} /\ Report!reRenderGrid
    BY <1>2 DEF Report!confidenceFilter, Report!chooseType, Report!chooseSort, Report!ChangeFilter,
                Report!InReport, Report!Click
  <2>2. /\ filter' = [type |-> filter'.type, confident |-> filter'.confident, sort |-> filter'.sort]
        /\ filter'.confident \in BOOLEAN /\ filter'.sort \in Report!Sorts
    <3>1. CASE \/ \E t : filter' = [filter EXCEPT !.type = t]
               \/ \E sort \in Report!Sorts : filter' = [filter EXCEPT !.sort = sort]
      BY <3>1 DEF ReportInv, PageTyped
    <3>2. CASE filter' = [filter EXCEPT !.confident = ~@]
      BY <3>2 DEF ReportInv, PageTyped
    <3> QED
      BY <1>2, <3>1, <3>2 DEF Report!confidenceFilter, Report!chooseType, Report!chooseSort, Report!ChangeFilter
  <2>3. PageTyped'
    BY <2>1, <2>2 DEF ReportInv, PageTyped
  <2>4. TimelineInv'
    BY <2>1 DEF ReportInv, TimelineInv
  <2>5. Current'
    BY <2>1 DEF ReportInv, Current, Report!reRenderGrid
  <2> QED
    BY <2>1, <2>3, <2>4, <2>5, ReportStands
<1> QED
  BY <1>1, <1>2

LEMMA ScanLoaded ==
    ASSUME ReportInv, NEW s \in DOMAIN Found, Report!loadScanByID(s)
    PROVE  ReportInv'
<1>1. /\ lastScanData' = None /\ drawn' = FALSE /\ profile' = None /\ live' = None /\ resultsPanel' = FALSE
      /\ filter' = [filter EXCEPT !.type = None, !.sort = "default"]
      /\ tab' = "results" /\ notes' = [notes EXCEPT !.unavailable = None]
      /\ asked' = Report!BagAdd(asked, Report!Request("load", s)) /\ menus' = {}
      /\ UNCHANGED <<graphMode, graph, waiting, nodeDetail, scripts, surface, opening, seeded, map,
                     leafletLoaded, timeline>>
  BY DEF Report!loadScanByID, Report!Click
<1>2. PageTyped'
  BY <1>1 DEF ReportInv, PageTyped, Scan, Report!Sorts
<1>3. GraphInv' /\ SurfaceInv'
  BY <1>1 DEF ReportInv, GraphInv, SurfaceInv, Report!Tabs
<1>4. TimelineInv' /\ Current'
  BY <1>1 DEF ReportInv, TimelineInv, Current
<1>5. Placed(Report!Request("load", s), surface')
  BY <1>3, NewPlaced
<1>6. DOMAIN asked' = DOMAIN asked \cup {Report!Request("load", s)}
  BY <1>1, BagOfOneMore
<1>7. AskedInv'
  BY <1>1, <1>5, <1>6, AskedStays DEF ReportInv
<1> QED
  BY <1>2, <1>3, <1>4, <1>7 DEF ReportInv

LEMMA ResultCame ==
    ASSUME ReportInv, Report!resultArrives
    PROVE  ReportInv'
<1>1. /\ live # None /\ live.received < Len(Found[live.of].results)
      /\ live' = [live EXCEPT !.received = @ + 1]
      /\ grid' = grid \/ grid'.of = None
      /\ UNCHANGED <<lastScanData, drawn, resultsPanel, profile, timeline, notes, filter, menus, tab,
                     graphMode, graph, waiting, nodeDetail, scripts, surface, opening, seeded, map,
                     leafletLoaded, asked>>
  BY DEF Report!resultArrives
<1>2. /\ live'= [of |-> live'.of, received |-> live'.received] /\ live'.of = live.of
      /\ live'.received \in 0..Len(Found[live.of].results)
  BY <1>1, ResultsAssumption DEF ReportInv, PageTyped
<1>3. PageTyped'
  BY <1>1, <1>2 DEF ReportInv, PageTyped
<1>4. TimelineInv' /\ Current'
  BY <1>1 DEF ReportInv, TimelineInv, Current
<1> QED
  BY <1>1, <1>3, <1>4, ReportStands

LEMMA ScanEnded ==
    ASSUME ReportInv, Report!scanEnds
    PROVE  ReportInv'
<1>1. /\ live # None /\ live' = None /\ live.of \in DOMAIN Found
      /\ UNCHANGED <<filter, menus, opening, seeded, map, leafletLoaded, profile, timeline>>
  BY DEF Report!scanEnds, ReportInv, PageTyped
<1>2. TimelineInv'
  BY <1>1 DEF ReportInv, TimelineInv
<1>3. CASE /\ asked' = Report!(+)(asked, Report!SetToBag({Report!Request("final", live.of),
                                                          Report!Request("identity", live.of)}))
           /\ notes' = [notes EXCEPT !.unavailable = Report!Missing(live.of).unavailable]
           /\ UNCHANGED <<lastScanData, drawn, resultsPanel, grid, tab, graphMode, graph, waiting,
                          nodeDetail, scripts, surface>>
  <2>1. PageTyped'
    BY <1>1, <1>3, MissingTyped DEF ReportInv, PageTyped
  <2>2. GraphInv' /\ SurfaceInv' /\ Current'
    BY <1>1, <1>3 DEF ReportInv, GraphInv, SurfaceInv, Current
  <2>3. /\ Placed(Report!Request("final", live.of), surface')
        /\ Placed(Report!Request("identity", live.of), surface')
    BY <1>1, <2>2, NewPlaced
  <2>4. DOMAIN asked' = DOMAIN asked \cup {Report!Request("final", live.of), Report!Request("identity", live.of)}
    BY <1>3, BagOfBoth
  <2>5. AskedInv'
    BY <1>3, <2>3, <2>4, AskedStays DEF ReportInv
  <2> QED
    BY <1>2, <2>1, <2>2, <2>5 DEF ReportInv
<1>4. CASE Report!displayResults(live.of)
           /\ asked' = Report!(+)(asked, Report!SetToBag(Report!Follow(live.of)))
  <2> DEFINE s == live.of
  <2>1. s \in DOMAIN Found
    BY <1>1
  <2> HIDE DEF s
  <2>2. /\ GraphInv' /\ SurfaceInv' /\ Current'
        /\ lastScanData' = s /\ drawn' = TRUE /\ resultsPanel' = TRUE /\ notes' = Report!Missing(s)
        /\ UNCHANGED surface \/ surface'.box = surface.box + 1
        /\ tab' = "surface" => surface'.of = s
    BY <1>4, <2>1, ResultsDisplayed DEF ReportInv, s
  <2>3. PageTyped'
    BY <1>1, <2>1, <2>2, MissingTyped DEF ReportInv, PageTyped, Scan
  <2>4. \A r \in Report!Follow(s) : Placed(r, surface')
    BY <2>1, <2>2, FollowPlaced
  <2>5. DOMAIN asked' = DOMAIN asked \cup Report!Follow(s)
    BY <1>4, BagOfBoth DEF s
  <2>6. AskedInv'
    BY <2>2, <2>4, <2>5, AskedStays DEF ReportInv
  <2> QED
    BY <1>2, <2>2, <2>3, <2>6 DEF ReportInv
<1>5. CASE UNCHANGED <<lastScanData, drawn, resultsPanel, grid, tab, graphMode, graph, waiting, nodeDetail,
                       scripts, surface, notes, asked>>
  <2>1. PageTyped'
    BY <1>1, <1>5 DEF ReportInv, PageTyped
  <2>2. Current'
    BY <1>1, <1>5 DEF ReportInv, Current
  <2> QED
    BY <1>2, <1>5, <2>1, <2>2, ReportStands
<1> QED
  BY <1>3, <1>4, <1>5 DEF Report!scanEnds

LEMMA LoadAnsweredReport ==
    ASSUME ReportInv, NEW r, Placed(r, surface), Report!loadAnswered(r), UNCHANGED menus
    PROVE  ReportInv'
<1> DEFINE s == r.of
<1>1. s \in DOMAIN Found
  BY DEF Placed
<1> HIDE DEF s
<1>2. UNCHANGED <<filter, menus, opening, seeded, map, leafletLoaded, profile>>
  BY DEF Report!loadAnswered
<1>3. CASE Report!displayResults(s) /\ Report!Then(r, Report!Follow(s)) /\ UNCHANGED <<live, timeline>>
  <2>1. /\ GraphInv' /\ SurfaceInv' /\ Current'
        /\ lastScanData' = s /\ drawn' = TRUE /\ resultsPanel' = TRUE /\ notes' = Report!Missing(s)
        /\ UNCHANGED surface \/ surface'.box = surface.box + 1
        /\ tab' = "surface" => surface'.of = s
    BY <1>1, <1>3, ResultsDisplayed DEF ReportInv
  <2>2. PageTyped'
    BY <1>1, <1>2, <1>3, <2>1, MissingTyped DEF ReportInv, PageTyped, Scan
  <2>3. \A x \in Report!Follow(s) : Placed(x, surface')
    BY <1>1, <2>1, FollowPlaced
  <2>4. \A x \in DOMAIN asked' : x \in DOMAIN asked \/ x \in Report!Follow(s)
    BY <1>3, ThenAsked
  <2>5. AskedInv'
    BY <2>1, <2>3, <2>4, AskedStays DEF ReportInv
  <2>6. TimelineInv'
    BY <1>3 DEF ReportInv, TimelineInv
  <2> QED
    BY <2>1, <2>2, <2>5, <2>6 DEF ReportInv
<1>4. CASE /\ Report!Then(r, {}) /\ UNCHANGED <<lastScanData, drawn, grid, tab, graphMode, graph, waiting,
                                               nodeDetail, scripts, surface, notes>>
           /\ \/ Report!startStreaming(s)
              \/ UNCHANGED <<resultsPanel, live, timeline>>
  <2>1. PageTyped' /\ TimelineInv'
    <3>1. CASE Report!startStreaming(s)
      <4>1. /\ live' = [of |-> s, received |-> 0] /\ resultsPanel' = TRUE /\ timeline' = None
            /\ 0 \in 0..Len(Found[s].results)
        BY <1>1, <3>1, ResultsAssumption DEF Report!startStreaming
      <4> QED
        BY <1>1, <1>2, <1>4, <4>1 DEF ReportInv, PageTyped, TimelineInv
    <3>2. CASE UNCHANGED <<resultsPanel, live, timeline>>
      BY <1>2, <1>4, <3>2 DEF ReportInv, PageTyped, TimelineInv
    <3> QED
      BY <1>4, <3>1, <3>2
  <2>2. GraphInv' /\ SurfaceInv' /\ Current'
    BY <1>2, <1>4 DEF ReportInv, GraphInv, SurfaceInv, Current
  <2>3. \A x \in DOMAIN asked' : x \in DOMAIN asked
    BY <1>4, ThenAsked
  <2>4. AskedInv'
    BY <1>4, <2>3, AskedStays DEF ReportInv
  <2> QED
    BY <2>1, <2>2, <2>4 DEF ReportInv
<1> QED
  BY <1>3, <1>4 DEF Report!loadAnswered, s

\* An answer after which nothing is asked for, and which leaves surface and data alone.
LEMMA AnswerOnly ==
    ASSUME ReportInv, NEW r, Report!Then(r, {}),
           surface'.of = surface.of /\ surface'.box = surface.box
    PROVE  AskedInv'
<1>1. \A x \in DOMAIN asked' : x \in DOMAIN asked
  BY ThenAsked
<1> QED
  BY <1>1, AskedStays DEF ReportInv

LEMMA OthersAnsweredReport ==
    ASSUME ReportInv, NEW r, Placed(r, surface),
           Report!finalAnswered(r) \/ Report!diffAnswered(r) \/ Report!geolocateAnswered(r), UNCHANGED menus
    PROVE  ReportInv'
<1>1. /\ UNCHANGED <<resultsPanel, live, profile, timeline, notes, filter, menus, tab, graphMode, graph, waiting,
                     nodeDetail, scripts, surface, opening, seeded, leafletLoaded, grid>>
      /\ Report!Then(r, {})
      /\ \/ UNCHANGED <<lastScanData, drawn>>
         \/ lastScanData' = r.of /\ drawn' = FALSE
      /\ map' \in {map, [view |-> "map", of |-> r.of], [view |-> "map", of |-> None],
                   [map EXCEPT !.view = "nothing"]}
  BY DEF Report!finalAnswered, Report!diffAnswered, Report!geolocateAnswered
<1>2. r.of \in DOMAIN Found
  BY DEF Placed
<1>3. /\ map' = [view |-> map'.view, of |-> map'.of]
      /\ map'.view \in {"blank", "loading", "nothing", "map"} /\ map'.of \in Scan
  BY <1>1, <1>2 DEF ReportInv, PageTyped, Scan
<1>4. lastScanData' \in Scan /\ drawn' \in BOOLEAN
  BY <1>1, <1>2 DEF ReportInv, PageTyped, Scan
<1>5. PageTyped'
  BY <1>1, <1>3, <1>4 DEF ReportInv, PageTyped
<1>6. GraphInv' /\ SurfaceInv' /\ TimelineInv' /\ Current'
  BY <1>1 DEF ReportInv, GraphInv, SurfaceInv, TimelineInv, Current
<1>7. AskedInv'
  BY <1>1, AnswerOnly
<1> QED
  BY <1>5, <1>6, <1>7 DEF ReportInv

LEMMA FixesCame ==
    ASSUME ReportInv, NEW r, Placed(r, surface), Report!fixesAnswered(r), UNCHANGED menus
    PROVE  ReportInv'
<1>1. /\ r.kind = "fixes" /\ Report!Then(r, {})
      /\ UNCHANGED <<lastScanData, drawn, resultsPanel, live, profile, timeline, notes, filter, menus, tab,
                     graphMode, graph, waiting, nodeDetail, scripts, opening, seeded, map, leafletLoaded, grid>>
      /\ \/ surface' = surface
         \/ r.box = surface.box /\ surface' = [surface EXCEPT !.fixes = r.of]
  BY DEF Report!fixesAnswered
<1>2. /\ SurfaceInv' /\ surface'.of = surface.of /\ surface'.box = surface.box
  BY <1>1 DEF ReportInv, SurfaceInv, Placed
<1>3. PageTyped'
  BY <1>1 DEF ReportInv, PageTyped
<1>4. GraphInv' /\ TimelineInv' /\ Current'
  BY <1>1, <1>2 DEF ReportInv, GraphInv, TimelineInv, Current
<1>5. AskedInv'
  BY <1>1, <1>2, AnswerOnly
<1> QED
  BY <1>2, <1>3, <1>4, <1>5 DEF ReportInv

LEMMA LeafletCame ==
    ASSUME ReportInv, NEW r, Placed(r, surface), Report!leafletAnswered(r), UNCHANGED menus
    PROVE  ReportInv'
<1>1. /\ UNCHANGED <<lastScanData, drawn, resultsPanel, live, profile, timeline, notes, filter, menus, tab,
                     graphMode, graph, waiting, nodeDetail, scripts, surface, opening, seeded, map, grid>>
      /\ \/ leafletLoaded' = TRUE /\ Report!Then(r, {Report!Request("geolocate", r.of)})
         \/ UNCHANGED leafletLoaded /\ Report!Then(r, {})
  BY DEF Report!leafletAnswered
<1>2. r.of \in DOMAIN Found
  BY DEF Placed
<1>3. PageTyped'
  BY <1>1 DEF ReportInv, PageTyped
<1>4. GraphInv' /\ SurfaceInv' /\ TimelineInv' /\ Current'
  BY <1>1 DEF ReportInv, GraphInv, SurfaceInv, TimelineInv, Current
<1>5. Placed(Report!Request("geolocate", r.of), surface')
  BY <1>2, <1>4, NewPlaced
<1>6. \A x \in DOMAIN asked' : x \in DOMAIN asked \/ x = Report!Request("geolocate", r.of)
  BY <1>1, ThenAsked
<1>7. AskedInv'
  BY <1>1, <1>5, <1>6, AskedStays DEF ReportInv
<1> QED
  BY <1>3, <1>4, <1>7 DEF ReportInv

LEMMA TabSwitched ==
    ASSUME ReportInv, NEW t \in Report!Tabs, Report!switchResultsTab(t), menus' = {}
    PROVE  ReportInv'
<1>1. /\ tab' = t
      /\ UNCHANGED <<lastScanData, drawn, resultsPanel, live, profile, timeline, notes, filter, grid,
                     graphMode, nodeDetail, opening, seeded, leafletLoaded>>
      /\ IF lastScanData = None THEN UNCHANGED <<graph, waiting, scripts, surface>>
         ELSE Report!DrawTab(lastScanData)
      /\ \/ /\ map' \in {map, [map EXCEPT !.view = "nothing"]}
            /\ \/ asked' = asked
               \/ t = "surface" /\ lastScanData # None /\ asked' = Report!BagAdd(asked, Report!loadRemediation)
         \/ /\ map' = [map EXCEPT !.view = "loading"] /\ lastScanData # None
            /\ \E kind \in {"geolocate", "leaflet"} :
                    asked' = Report!BagAdd(asked, Report!Request(kind, lastScanData))
  BY DEF Report!switchResultsTab, Report!initLeafletMap
<1>2. lastScanData # None => lastScanData \in DOMAIN Found
  BY DEF ReportInv, PageTyped, Scan
<1>3. /\ GraphInv' /\ SurfaceInv'
      /\ lastScanData # None =>
            /\ tab' = "graph" => IF waiting' # None THEN waiting' = lastScanData
                                 ELSE graph' = Report!Drawing(lastScanData, graphMode', profile')
            /\ tab' = "surface" => surface'.of = lastScanData
      /\ UNCHANGED surface \/ surface'.box = surface.box + 1
  <2>1. CASE lastScanData = None
    BY <1>1, <2>1 DEF ReportInv, GraphInv, SurfaceInv
  <2>2. CASE lastScanData # None
    <3>1. tab' \in Report!Tabs /\ graphMode' \in {"connections", "sources"}
      BY <1>1 DEF ReportInv, GraphInv
    <3> QED
      BY <1>1, <1>2, <2>2, <3>1, TabDrawn DEF ReportInv
  <2> QED
    BY <2>1, <2>2
<1>4. PageTyped'
  <2>1. map' = [view |-> map'.view, of |-> map'.of]
        /\ map'.view \in {"blank", "loading", "nothing", "map"} /\ map'.of \in Scan
    BY <1>1 DEF ReportInv, PageTyped
  <2> QED
    BY <1>1, <2>1 DEF ReportInv, PageTyped
<1>5. TimelineInv'
  BY <1>1 DEF ReportInv, TimelineInv
<1>6. Current'
  BY <1>1, <1>3 DEF ReportInv, Current
<1>7. AskedInv'
  <2>1. CASE asked' = asked
    BY <1>3, <2>1, AskedStays DEF ReportInv
  <2>2. CASE t = "surface" /\ lastScanData # None /\ asked' = Report!BagAdd(asked, Report!loadRemediation)
    <3>1. Placed(Report!loadRemediation, surface')
      BY <1>1, <1>2, <1>3, <2>2, FixesPlaced
    <3>2. DOMAIN asked' = DOMAIN asked \cup {Report!loadRemediation}
      BY <2>2, BagOfOneMore
    <3> QED
      BY <1>3, <3>1, <3>2, AskedStays DEF ReportInv
  <2>3. ASSUME lastScanData # None, NEW kind \in {"geolocate", "leaflet"},
               asked' = Report!BagAdd(asked, Report!Request(kind, lastScanData))
        PROVE  AskedInv'
    <3>1. Placed(Report!Request(kind, lastScanData), surface')
      BY <1>2, <1>3, <2>3, NewPlaced
    <3>2. DOMAIN asked' = DOMAIN asked \cup {Report!Request(kind, lastScanData)}
      BY <2>3, BagOfOneMore
    <3> QED
      BY <1>3, <3>1, <3>2, AskedStays DEF ReportInv
  <2> QED
    BY <1>1, <2>1, <2>2, <2>3
<1> QED
  BY <1>3, <1>4, <1>5, <1>6, <1>7 DEF ReportInv

LEMMA TabsClicked ==
    ASSUME ReportInv,
           \/ Report!toggleGraph \/ \E t \in Report!Tabs : Report!clickTab(t)
           \/ \E mode \in {"connections", "sources"} : Report!clickGraphMode(mode)
    PROVE  ReportInv'
<1>1. CASE Report!toggleGraph \/ \E t \in Report!Tabs : Report!clickTab(t)
  <2>1. \E t \in Report!Tabs : Report!switchResultsTab(t) /\ menus' = {}
    BY <1>1 DEF Report!toggleGraph, Report!clickTab, Report!InReport, Report!Click, Report!Tabs
  <2> QED
    BY <2>1, TabSwitched
<1>2. ASSUME NEW mode \in {"connections", "sources"}, Report!clickGraphMode(mode)
      PROVE  ReportInv'
  <2>1. /\ menus' = {} /\ tab = "graph" /\ graphMode' = mode
        /\ UNCHANGED <<lastScanData, drawn, resultsPanel, live, profile, timeline, notes, filter, grid, tab,
                       nodeDetail, surface, opening, seeded, map, leafletLoaded, asked>>
        /\ IF lastScanData = None THEN UNCHANGED <<graph, waiting, scripts>>
           ELSE Report!renderD3Graph(lastScanData)
    BY <1>2 DEF Report!clickGraphMode, Report!InReport, Report!Click
  <2>2. PageTyped' /\ SurfaceInv' /\ TimelineInv'
    BY <2>1 DEF ReportInv, PageTyped, SurfaceInv, TimelineInv
  <2>3. AskedInv'
    BY <2>1 DEF ReportInv, AskedInv
  <2>4. CASE lastScanData = None
    BY <2>1, <2>2, <2>3, <2>4 DEF ReportInv, GraphInv, Current
  <2>5. CASE lastScanData # None
    <3>1. lastScanData \in DOMAIN Found
      BY <2>5 DEF ReportInv, PageTyped, Scan
    <3>2. tab' \in Report!Tabs /\ graphMode' \in {"connections", "sources"}
      BY <2>1 DEF ReportInv, GraphInv
    <3>3. /\ GraphInv'
          /\ IF waiting' # None THEN waiting' = lastScanData
             ELSE graph' = Report!Drawing(lastScanData, graphMode', profile')
      BY <2>1, <2>5, <3>1, <3>2, GraphDrawn DEF ReportInv
    <3>4. Current'
      BY <2>1, <3>3 DEF ReportInv, Current
    <3> QED
      BY <2>2, <2>3, <3>3, <3>4 DEF ReportInv
  <2> QED
    BY <2>4, <2>5
<1> QED
  BY <1>1, <1>2

LEMMA NodesClicked ==
    ASSUME ReportInv, Report!closeNodeDetail \/ \E n : Report!clickNode(n)
    PROVE  ReportInv'
<1>1. /\ UNCHANGED <<lastScanData, drawn, resultsPanel, live, profile, timeline, notes, filter, grid, tab,
                     graphMode, graph, waiting, scripts, surface, opening, seeded, map, leafletLoaded, asked>>
      /\ menus' \in {{}, menus}
      /\ nodeDetail' # None => graph # None /\ nodeDetail'.of = graph.of
  BY DEF Report!closeNodeDetail, Report!clickNode, Report!InReport, Report!Click
<1>2. GraphInv' /\ SurfaceInv'
  BY <1>1 DEF ReportInv, GraphInv, SurfaceInv
<1>3. PageTyped' /\ TimelineInv' /\ Current'
  BY <1>1 DEF ReportInv, PageTyped, TimelineInv, Current
<1>4. AskedInv'
  BY <1>1 DEF ReportInv, AskedInv
<1> QED
  BY <1>2, <1>3, <1>4 DEF ReportInv

LEMMA SeedTyped ==
    ASSUME ReportInv, NEW who, Report!Seed(who)
    PROVE  seeded' \in Scan
BY DEF ReportInv, PageTyped, Report!Seed

LEMMA BoardsLoaded ==
    ASSUME ReportInv,
           Report!boardsCome \/ \E what \in {"open", "seed"} : Report!loadInvestigationBoards(what)
    PROVE  ReportInv'
<1>1. /\ UNCHANGED <<lastScanData, drawn, resultsPanel, live, profile, timeline, notes, filter, grid, tab,
                     graphMode, graph, waiting, nodeDetail, surface, map, leafletLoaded, asked>>
      /\ menus' \in {{}, menus} /\ opening' \subseteq opening \cup {"open", "seed"}
      /\ UNCHANGED seeded \/ \E who : Report!Seed(who)
      /\ \/ UNCHANGED scripts
         \/ \E p \in Progress : scripts' = [scripts EXCEPT !.boards = p]
         \/ scripts.d3 # "loaded" /\ scripts' = [scripts EXCEPT !.d3 = "loading"]
  BY DEF Report!boardsCome, Report!loadInvestigationBoards, Report!Click, Progress
<1>2. seeded' \in Scan
  BY <1>1, SeedTyped DEF ReportInv, PageTyped
<1>3. PageTyped'
  BY <1>1, <1>2 DEF ReportInv, PageTyped
<1>4. GraphInv'
  BY <1>1 DEF ReportInv, GraphInv, Progress
<1>5. SurfaceInv' /\ TimelineInv' /\ Current'
  BY <1>1 DEF ReportInv, SurfaceInv, TimelineInv, Current
<1>6. AskedInv'
  BY <1>1 DEF ReportInv, AskedInv
<1> QED
  BY <1>3, <1>4, <1>5, <1>6 DEF ReportInv

LEMMA D3Came ==
    ASSUME ReportInv, Report!d3Comes
    PROVE  ReportInv'
<1>1. /\ scripts.d3 = "loading" /\ waiting' = None /\ opening' \in {{}, opening}
      /\ UNCHANGED <<lastScanData, drawn, resultsPanel, live, profile, timeline, notes, filter, grid, menus, tab,
                     graphMode, nodeDetail, surface, seeded, map, leafletLoaded, asked>>
      /\ \/ /\ scripts' = [d3 |-> "loaded", boards |-> IF opening = {} THEN scripts.boards ELSE "loading"]
            /\ graph' = IF waiting = None THEN graph ELSE Report!Drawing(waiting, graphMode, profile)
         \/ scripts' = [scripts EXCEPT !.d3 = "absent"] /\ UNCHANGED graph
  BY DEF Report!d3Comes
<1>2. PageTyped'
  BY <1>1 DEF ReportInv, PageTyped
<1>3. graph = None /\ (waiting # None => waiting \in DOMAIN Found)
  BY <1>1 DEF ReportInv, GraphInv, Scan
<1>4. Report!Drawing(waiting, graphMode, profile).of = waiting
  BY DrawingOf
<1>5. /\ scripts' \in [d3: Progress, boards: Progress] /\ (scripts'.d3 # "loaded" => graph' = None)
      /\ graph' # None => graph'.of \in DOMAIN Found
  BY <1>1, <1>3, <1>4 DEF ReportInv, GraphInv, Progress
<1>6. GraphInv'
  BY <1>1, <1>5 DEF ReportInv, GraphInv, Scan
<1>7. Current'
  BY <1>1, <1>3 DEF ReportInv, Current
<1>8. SurfaceInv' /\ TimelineInv'
  BY <1>1 DEF ReportInv, SurfaceInv, TimelineInv
<1>9. AskedInv'
  BY <1>1 DEF ReportInv, AskedInv
<1> QED
  BY <1>2, <1>6, <1>7, <1>8, <1>9 DEF ReportInv

\* Rows that are rendered again keep to the filters, a year without a column being dropped.
LEMMA RowsListed ==
    ASSUME NEW scan \in DOMAIN Found, NEW category, NEW year, NEW expanded \in BOOLEAN,
           NEW t, t = [of |-> scan, category |-> category, year |-> year, expanded |-> expanded],
           Report!renderTimelineRows(t),
           expanded => /\ Report!HasMore(t)
                       /\ year # None => Report!InYear(t) # {}
    PROVE  TimelineInv'
<1>1. CASE \E i \in Report!InCategory(t) : Report!yearOf(t.of, i) = t.year
  <2>1. timeline' = t
    BY <1>1 DEF Report!renderTimelineRows
  <2>2. Report!InYear(t) # {}
    BY <1>1 DEF Report!InYear
  <2>3. Listed(t)
    BY <2>2 DEF Listed
  <2> QED
    BY <2>1, <2>3 DEF TimelineInv
<1>2. CASE ~\E i \in Report!InCategory(t) : Report!yearOf(t.of, i) = t.year
  <2>1. timeline' = [of |-> scan, category |-> category, year |-> None, expanded |-> expanded]
    BY <1>2 DEF Report!renderTimelineRows
  <2>2. expanded => year = None
    BY <1>2 DEF Report!InYear
  <2>3. expanded => Report!HasMore(timeline')
    BY <2>1, <2>2
  <2>4. Listed(timeline')
    BY <2>1, <2>3 DEF Listed
  <2> QED
    BY <2>4 DEF TimelineInv
<1> QED
  BY <1>1, <1>2

LEMMA TimelineClicked ==
    ASSUME ReportInv,
           \/ Report!toggleTimeline \/ \E year : Report!clickYear(year)
           \/ \E category : Report!chooseCategory(category)
    PROVE  ReportInv'
<1>1. Report!InTimeline /\ Report!TimelineChanges
  <2>1. CASE Report!toggleTimeline
    BY <2>1, Zenon DEF Report!toggleTimeline
  <2>2. ASSUME NEW column, Report!clickYear(column)
        PROVE  Report!InTimeline /\ Report!TimelineChanges
    BY <2>2, Zenon DEF Report!clickYear
  <2>3. ASSUME NEW chosen, Report!chooseCategory(chosen)
        PROVE  Report!InTimeline /\ Report!TimelineChanges
    BY <2>3, Zenon DEF Report!chooseCategory
  <2> QED
    BY <2>1, <2>2, <2>3, Zenon
<1>2. /\ UNCHANGED <<lastScanData, drawn, resultsPanel, live, profile, notes, filter, grid, tab, graphMode, graph,
                     waiting, nodeDetail, scripts, surface, opening, seeded, map, leafletLoaded, asked>>
      /\ menus' = {} /\ timeline # None
  BY <1>1 DEF Report!InTimeline, Report!TimelineChanges, Report!InReport, Report!Click
<1>3. Listed(timeline)
  BY <1>2 DEF ReportInv, TimelineInv
<1>4. PICK category, year, expanded :
        timeline = [of |-> timeline.of, category |-> category, year |-> year, expanded |-> expanded]
  BY <1>3 DEF Listed
<1>5. PICK scan : timeline = [of |-> scan, category |-> category, year |-> year, expanded |-> expanded]
  BY <1>4
<1>6. /\ scan \in DOMAIN Found /\ expanded \in BOOLEAN
      /\ year # None => Report!InYear(timeline) # {}
  BY <1>3, <1>5 DEF Listed
<1>7. TimelineInv'
  <2>1. CASE Report!toggleTimeline
    <3> DEFINE t == [timeline EXCEPT !.expanded = ~timeline.expanded]
    <3>1. Report!renderTimelineRows(t) /\ Report!HasMore(timeline)
      BY <2>1 DEF Report!toggleTimeline
    <3>2. t = [of |-> scan, category |-> category, year |-> year, expanded |-> ~expanded]
      BY <1>5
    <3> HIDE DEF t
    <3>3. t.of = timeline.of /\ t.category = timeline.category /\ t.year = timeline.year
      BY <1>5, <3>2
    <3>4. Report!InYear(t) = Report!InYear(timeline)
      BY <3>3 DEF Report!InYear, Report!InCategory
    <3>5. Report!HasMore(t)
      BY <3>1, <3>4 DEF Report!HasMore
    <3> QED
      BY <1>6, <3>1, <3>2, <3>4, <3>5, RowsListed
  <2>2. ASSUME NEW column, Report!clickYear(column)
        PROVE  TimelineInv'
    <3> DEFINE new == IF timeline.year = column THEN None ELSE column
               u == [timeline EXCEPT !.year = new]
               recent == FALSE
               t == [u EXCEPT !.expanded = recent]
    <3>1. Report!renderTimelineRows(t) /\ recent \in BOOLEAN /\ ~recent
      BY <2>2, Zenon DEF Report!clickYear
    <3> HIDE DEF new
    <3>2. u = [of |-> scan, category |-> category, year |-> new, expanded |-> expanded]
      BY <1>5
    <3> HIDE DEF u, recent
    <3>3. t = [of |-> scan, category |-> category, year |-> new, expanded |-> recent]
      BY <3>2
    <3> HIDE DEF t
    <3> QED
      BY <1>6, <3>1, <3>3, RowsListed
  <2>3. ASSUME NEW chosen, Report!chooseCategory(chosen)
        PROVE  TimelineInv'
    <3> DEFINE u == [timeline EXCEPT !.category = chosen]
               recent == FALSE
               t == [u EXCEPT !.expanded = recent]
    <3>1. Report!renderTimelineRows(t) /\ recent \in BOOLEAN /\ ~recent
      BY <2>3, Zenon DEF Report!chooseCategory
    <3>2. u = [of |-> scan, category |-> chosen, year |-> year, expanded |-> expanded]
      BY <1>5
    <3> HIDE DEF u, recent
    <3>3. t = [of |-> scan, category |-> chosen, year |-> year, expanded |-> recent]
      BY <3>2
    <3> HIDE DEF t
    <3> QED
      BY <1>6, <3>1, <3>3, RowsListed
  <2> QED
    BY <2>1, <2>2, <2>3
<1>8. PageTyped' /\ Current'
  BY <1>2 DEF ReportInv, PageTyped, Current
<1> QED
  BY <1>2, <1>7, <1>8, ReportStands

LEMMA IdentityCame ==
    ASSUME ReportInv, NEW r, Placed(r, surface), Report!identityAnswered(r), UNCHANGED menus
    PROVE  ReportInv'
<1>1. /\ Report!Then(r, {})
      /\ UNCHANGED <<lastScanData, drawn, resultsPanel, live, notes, filter, grid, menus, tab, graphMode,
                     nodeDetail, surface, opening, seeded, map, leafletLoaded>>
      /\ \/ profile' = r.of /\ Report!renderIdentity(r.of) /\ Report!redrawGraph
         \/ timeline' = None /\ UNCHANGED <<profile, graph, waiting, scripts>>
  BY DEF Report!identityAnswered
<1>2. r.of \in DOMAIN Found
  BY DEF Placed
<1>3. profile' \in Scan
  BY <1>1, <1>2 DEF ReportInv, PageTyped, Scan
<1>4. PageTyped' /\ SurfaceInv'
  BY <1>1, <1>3 DEF ReportInv, PageTyped, SurfaceInv
<1>5. AskedInv'
  BY <1>1, AnswerOnly
<1>6. TimelineInv'
  <2> DEFINE t == [of |-> r.of, category |-> "all", year |-> None, expanded |-> FALSE]
  <2>1. timeline' \in {None, t}
    BY <1>1 DEF Report!renderIdentity
  <2>2. Listed(t)
    BY <1>2 DEF Listed
  <2> HIDE DEF t
  <2> QED
    BY <2>1, <2>2 DEF TimelineInv
<1>7. CASE Report!redrawGraph /\ tab = "graph" /\ lastScanData # None
  <2>1. lastScanData \in DOMAIN Found /\ Report!renderD3Graph(lastScanData)
    BY <1>7 DEF ReportInv, PageTyped, Scan, Report!redrawGraph
  <2>2. tab' \in Report!Tabs /\ graphMode' \in {"connections", "sources"}
    BY <1>1 DEF ReportInv, GraphInv
  <2>3. /\ GraphInv'
        /\ IF waiting' # None THEN waiting' = lastScanData
           ELSE graph' = Report!Drawing(lastScanData, graphMode', profile')
    BY <1>1, <2>1, <2>2, GraphDrawn DEF ReportInv
  <2>4. Current'
    BY <1>1, <1>7, <2>3 DEF ReportInv, Current
  <2> QED
    BY <1>4, <1>5, <1>6, <2>3, <2>4 DEF ReportInv
<1>8. CASE UNCHANGED <<graph, waiting, scripts>> /\ (UNCHANGED profile \/ tab # "graph" \/ lastScanData = None)
  <2>1. GraphInv'
    BY <1>1, <1>8 DEF ReportInv, GraphInv
  <2>2. Current'
    BY <1>1, <1>8 DEF ReportInv, Current
  <2> QED
    BY <1>4, <1>5, <1>6, <2>1, <2>2 DEF ReportInv
<1> QED
  BY <1>1, <1>7, <1>8 DEF Report!redrawGraph

LEMMA ReportStep ==
    ASSUME ReportInv, Report!ReportNext
    PROVE  ReportInv'
<1>1. ASSUME NEW r \in DOMAIN asked, Report!Answered(r)
      PROVE  ReportInv'
  <2>1. Placed(r, surface) /\ UNCHANGED menus
    BY <1>1 DEF ReportInv, AskedInv, Report!Answered
  <2> QED
    BY <1>1, <2>1, LoadAnsweredReport, OthersAnsweredReport, FixesCame, LeafletCame, IdentityCame
       DEF Report!Answered
<1>2. CASE Report!UserSteps
  BY <1>2, FiltersChanged, ScanLoaded, TabsClicked, NodesClicked, BoardsLoaded, TimelineClicked
     DEF Report!UserSteps, Report!Scans
<1> QED
  BY <1>1, <1>2, ResultCame, ScanEnded, D3Came, BoardsLoaded DEF Report!ReportNext

\* A click elsewhere closes the dropdowns, no more.
LEMMA ReportBeside ==
    ASSUME ReportInv, UNCHANGED reportVars, menus' \in {menus, {}}
    PROVE  ReportInv'
<1>1. UNCHANGED <<lastScanData, drawn, resultsPanel, live, profile, timeline, notes, filter, grid, tab,
                  graphMode, graph, waiting, nodeDetail, scripts, surface, opening, seeded, map, leafletLoaded, asked>>
  BY DEF reportVars
<1>2. PageTyped' /\ TimelineInv' /\ Current'
  BY <1>1 DEF ReportInv, PageTyped, TimelineInv, Current
<1> QED
  BY <1>1, <1>2, ReportStands

-------------------------------------------------------------------------------
(* The invariant *)

LEMMA DialogStarts ==
    ASSUME Init
    PROVE  DialogInv
<1>1. Dialog!DialogInit
  BY DEF Init
<1>2. PICK s \in {"active", "none"} :
        job = [j \in Jobs |-> IF j = 1 THEN "completed" ELSE IF j = 2 THEN s ELSE "none"]
  BY <1>1 DEF Dialog!DialogInit
<1>3. job \in [Jobs -> Dialog!Statuses \cup {"none", "gone"}]
  BY <1>2 DEF Dialog!Statuses, Dialog!Terminal
<1>4. jobs \in JobLists /\ \A j \in Jobs : jobs[j] = "none"
  BY <1>1 DEF Dialog!DialogInit, JobLists
<1>5. Queue(requests)
  <2> DEFINE r == Dialog!Request("status", None)
  <2>1. r \in Requests /\ Sound(r)
    BY DEF Requests, Kinds, Sound, Dialog!Request
  <2>2. requests \in {<<>>, <<r>>}
    BY <1>1 DEF Dialog!DialogInit
  <2> HIDE DEF r
  <2>3. CASE requests = <<>>
    BY <2>3 DEF Queue
  <2>4. CASE requests = <<r>>
    <3>1. <<r>> \in Seq(Requests) /\ DOMAIN <<r>> = {1} /\ <<r>>[1] = r
      BY <2>1
    <3> QED
      BY <2>1, <2>4, <3>1 DEF Queue
  <2> QED
    BY <2>2, <2>3, <2>4
<1>6. page \in {"loading", "in"} /\ open \in {FALSE, page = "in"}
  BY <1>1 DEF Init, Dialog!DialogInit
<1>7. DialogTyped
  BY <1>1, <1>3, <1>4, <1>5, <1>6 DEF Dialog!DialogInit, DialogTyped
<1>8. Selection /\ Polled /\ Timer
  BY <1>1, <1>4, <1>6 DEF Dialog!DialogInit, Selection, Polled, Timer
<1> QED
  BY <1>7, <1>8 DEF DialogInv

LEMMA AccountStarts ==
    ASSUME Init
    PROVE  AccountInv
<1>1. Account!AccountInit /\ page \in {"loading", "in"} /\ signedIn \in BOOLEAN
  BY DEF Init
<1>2. pending = Account!EmptyBag /\ DOMAIN pending = {}
  BY <1>1 DEF Account!AccountInit, Account!EmptyBag, Account!SetToBag
<1>3. scans \in [url: Account!URLs, page: Nat \ {0}, pages: Nat \ {0}]
  <2>1. "/api/my-scans" \in Account!URLs
    BY DEF Account!URLs
  <2> QED
    BY <1>1, <2>1 DEF Account!AccountInit
<1>4. panels \in SUBSET Account!Panels /\ (page # "in" => panels = {})
  BY <1>1 DEF Account!AccountInit, Account!Panels
<1>5. /\ user \in BOOLEAN /\ bell \in BOOLEAN /\ twoFactorEnabled \in BOOLEAN
      /\ (page = "in" => user) /\ (bell => page = "in")
  BY <1>1 DEF Account!AccountInit
<1>6. AccountTyped
  BY <1>1, <1>3, <1>4, <1>5 DEF Account!AccountInit, AccountTyped
<1>7. ListsTyped
  BY <1>1, <1>2 DEF Account!AccountInit, ListsTyped, Unseen, Account!Unseen
<1>8. Session
  BY <1>2, <1>4, <1>5 DEF Session
<1>9. Followed
  BY <1>1, <1>2 DEF Account!AccountInit, Followed, Newest, Unseen
<1> QED
  BY <1>6, <1>7, <1>8, <1>9 DEF AccountInv

LEMMA ReportStarts ==
    ASSUME Init
    PROVE  ReportInv
<1>1. Report!ReportInit
  BY DEF Init
<1>2. /\ lastScanData \in {None, 1} /\ drawn = (lastScanData # None) /\ resultsPanel = drawn
      /\ live = None /\ profile = None /\ seeded = None /\ timeline = None /\ leafletLoaded = FALSE
      /\ filter = [type |-> None, confident |-> FALSE, sort |-> "default"] /\ menus = {} /\ opening = {}
      /\ map = [view |-> "blank", of |-> None]
      /\ notes = IF lastScanData = None THEN [unavailable |-> None, skipped |-> None] ELSE Report!Missing(1)
      /\ tab = "results" /\ graphMode = "connections" /\ graph = None /\ waiting = None /\ nodeDetail = None
      /\ scripts = [d3 |-> "absent", boards |-> "absent"]
      /\ surface = [of |-> None, shows |-> Report!Nothing, box |-> 0, fixes |-> None]
      /\ lastScanData # None => grid = Report!Cards(1, filter)
  BY <1>1 DEF Report!ReportInit, Report!NoFilter
<1>3. PageTyped
  <2>1. /\ lastScanData \in Scan /\ drawn \in BOOLEAN
        /\ notes = [unavailable |-> notes.unavailable, skipped |-> notes.skipped]
        /\ notes.unavailable \in Scan /\ notes.skipped \in Scan
    BY <1>2, MissingTyped DEF Scan
  <2> QED
    BY <1>2, <2>1 DEF PageTyped, Scan, Report!Sorts
<1>4. GraphInv /\ SurfaceInv /\ TimelineInv
  BY <1>2 DEF GraphInv, SurfaceInv, TimelineInv, Report!Tabs, Progress, Scan
<1>5. Current
  BY <1>2 DEF Current
<1>6. AskedInv
  <2>1. CASE asked = Report!EmptyBag
    BY <2>1 DEF AskedInv, Report!EmptyBag, Report!SetToBag
  <2>2. CASE asked = Report!SetToBag({Report!Request("identity", 1), Report!Request("diff", 1)})
    <3>1. DOMAIN asked = {Report!Request("identity", 1), Report!Request("diff", 1)}
      BY <2>2 DEF Report!SetToBag
    <3>2. Placed(Report!Request("identity", 1), surface) /\ Placed(Report!Request("diff", 1), surface)
      BY <1>2 DEF Placed, Report!Request
    <3> QED
      BY <3>1, <3>2 DEF AskedInv
  <2> QED
    BY <1>1, <2>1, <2>2 DEF Report!ReportInit
<1> QED
  BY <1>3, <1>4, <1>5, <1>6 DEF ReportInv

\* A step of the dialog is a stuttering step of the rest, except for the clicks.
LEMMA AccountBeside ==
    ASSUME AccountInv, UNCHANGED accountVars, UNCHANGED <<page, signedIn>>
    PROVE  AccountInv'
<1>1. UNCHANGED <<user, bell, panels, server, shown, missed, pending, enabled2FA,
                  twoFactorEnabled, block, scans, diffSelectA, page, signedIn>>
  BY DEF accountVars
<1>2. AccountTyped'
  BY <1>1 DEF AccountInv, AccountTyped
<1> QED
  BY <1>1, <1>2, NothingAsked

LEMMA DialogLeavesThePage ==
    ASSUME Dialog!DialogNext
    PROVE  UNCHANGED <<page, signedIn>>
<1>1. CASE \/ Dialog!openDialog \/ Dialog!refresh \/ Dialog!clickClose \/ Dialog!submitInvestigation
           \/ Dialog!cancelSelected \/ Dialog!deleteSelected \/ Dialog!addSelectedToBoard
           \/ Dialog!visibilityChange \/ Dialog!pollTimerFires
  BY <1>1 DEF Dialog!openDialog, Dialog!refresh, Dialog!clickClose, Dialog!submitInvestigation,
              Dialog!cancelSelected, Dialog!deleteSelected, Dialog!addSelectedToBoard, Dialog!Press,
              Dialog!visibilityChange, Dialog!pollTimerFires
<1>2. CASE \E j \in Jobs : Dialog!clickJob(j) \/ Dialog!JobEnds(j)
  BY <1>2 DEF Dialog!clickJob, Dialog!JobEnds
<1>3. CASE \E k \in DOMAIN requests : Dialog!Execute(k) \/ Dialog!Answered(k)
  BY <1>3 DEF Dialog!Execute, Dialog!Answered
<1> QED
  BY <1>1, <1>2, <1>3 DEF Dialog!DialogNext, Dialog!UserSteps

LEMMA EscapeKeeps ==
    ASSUME IInv, Escape
    PROVE  IInv'
<1>1. /\ panels' = panels \ {"diff", "help"} /\ Dialog!closeDialog
      /\ UNCHANGED <<page, signedIn, user, bell, server, shown, missed, pending, enabled2FA,
                     twoFactorEnabled, block, scans, diffSelectA>>
      /\ UNCHANGED <<job, busy, visible, configured, jobs, detailVars, requests>>
      /\ UNCHANGED reportVars /\ UNCHANGED menus
  BY DEF Escape, Account!EscapePanels
<1>2. DialogInv'
  BY <1>1, DialogBeside DEF IInv
<1>3. AccountTyped'
  BY <1>1 DEF IInv, AccountInv, AccountTyped
<1>4. AccountInv'
  BY <1>1, <1>3, NothingAsked DEF IInv
<1>5. ReportInv'
  BY <1>1, ReportBeside DEF IInv
<1> QED
  BY <1>2, <1>4, <1>5 DEF IInv

LEMMA Steps ==
    ASSUME IInv, [Next]_vars
    PROVE  IInv'
<1>1. CASE AccountSteps
  <2>1. AccountInv' /\ (page = "in" => page' \in {"in", "out"})
    BY <1>1, AccountStep, PageOnlyEnds DEF AccountSteps, IInv
  <2>2. \/ Dialog!closeDialog
        \/ UNCHANGED <<open, pollTimer>> /\ (page = "in" => page' = "in")
    BY <1>1, <2>1 DEF AccountSteps
  <2>3. DialogInv'
    BY <1>1, <2>2, DialogBeside DEF AccountSteps, IInv
  <2>4. ReportInv'
    BY <1>1, ReportBeside DEF AccountSteps, CloseMenus, IInv
  <2> QED
    BY <2>1, <2>3, <2>4 DEF IInv
<1>2. CASE DialogSteps
  <2>1. DialogInv' /\ AccountInv'
    BY <1>2, DialogStep, DialogLeavesThePage, AccountBeside DEF DialogSteps, IInv
  <2>2. ReportInv'
    BY <1>2, ReportBeside DEF DialogSteps, CloseMenus, IInv
  <2> QED
    BY <2>1, <2>2 DEF IInv
<1>3. CASE ReportSteps
  <2>1. ReportInv'
    BY <1>3, ReportStep DEF ReportSteps, IInv
  <2>2. /\ UNCHANGED <<page, signedIn>> /\ UNCHANGED accountVars
        /\ UNCHANGED <<open, pollTimer>>
        /\ UNCHANGED <<job, busy, visible, configured, jobs, detailVars, requests>>
    BY <1>3 DEF ReportSteps, dialogVars
  <2>3. DialogInv' /\ AccountInv'
    BY <2>2, DialogBeside, AccountBeside DEF IInv
  <2> QED
    BY <2>1, <2>3 DEF IInv
<1>4. CASE Escape
  BY <1>4, EscapeKeeps
<1>5. CASE UNCHANGED vars
  <2>1. /\ UNCHANGED <<page, signedIn, open, pollTimer>> /\ UNCHANGED accountVars
        /\ UNCHANGED <<job, busy, visible, configured, jobs, detailVars, requests>>
        /\ UNCHANGED reportVars /\ UNCHANGED menus
    BY <1>5 DEF vars, dialogVars
  <2> QED
    BY <2>1, DialogBeside, AccountBeside, ReportBeside DEF IInv
<1> QED
  BY <1>1, <1>2, <1>3, <1>4, <1>5 DEF Next

\* The inductive invariant of the dialog, the account's panels and the report, with
\* requests answered in any order and any of them failing.
THEOREM ConsoleInductive == Spec => []IInv
<1>1. Init => IInv
  BY DialogStarts, AccountStarts, ReportStarts DEF IInv
<1>2. IInv /\ [Next]_vars => IInv'
  BY Steps
<1> QED
  BY <1>1, <1>2, PTL DEF Spec

LEMMA TypesFollow ==
    ASSUME IInv
    PROVE  TypeOK
<1>1. DialogTyped /\ Queue(requests)
  BY DEF IInv, DialogInv, DialogTyped
<1>2. \A r \in Dialog!Range(requests) : r.about \in Jobs \cup {None} /\ r.done \in BOOLEAN
  <2>1. \A i \in DOMAIN requests : requests[i] \in Requests
    BY <1>1 DEF Queue
  <2> QED
    BY <2>1 DEF Dialog!Range, Requests
<1>3. \A k, m \in DOMAIN requests : requests[k].last /\ requests[m].last => k = m
  BY <1>1 DEF Queue
<1>4. Dialog!DialogTypeOK
  <2>1. /\ job \in [Jobs -> Dialog!Statuses \cup {"none", "gone"}]
        /\ {open, busy, visible, configured, pollTimer} \subseteq BOOLEAN
        /\ jobs \in [Jobs -> Dialog!Statuses \cup {"none"}]
        /\ selectedID \in Jobs \cup {None}
        /\ {detail, rendered} \subseteq Dialog!Copies \cup {None}
    BY <1>1 DEF DialogTyped, JobLists
  <2> QED
    BY <1>2, <1>3, <2>1 DEF Dialog!DialogTypeOK
<1>5. Account!AccountTypeOK
  <2>1. AccountTyped /\ ListsTyped
    BY DEF IInv, AccountInv
  <2>2. scans.url \in Account!URLs /\ scans.page >= 1 /\ scans.pages >= 1
    BY <2>1 DEF AccountTyped
  <2> QED
    BY <2>1, <2>2 DEF Account!AccountTypeOK, AccountTyped, ListsTyped, Unseen
<1>6. Report!ReportTypeOK
  <2>1. PageTyped /\ GraphInv /\ SurfaceInv /\ TimelineInv /\ AskedInv
    BY DEF IInv, ReportInv
  <2>2. /\ {lastScanData, profile, waiting, seeded, surface.of, surface.fixes, map.of,
            notes.unavailable, notes.skipped} \subseteq DOMAIN Found \cup {None}
        /\ {drawn, resultsPanel, leafletLoaded, filter.confident} \subseteq BOOLEAN
    BY <2>1 DEF PageTyped, GraphInv, SurfaceInv, Scan
  <2>3. /\ live # None => live.of \in DOMAIN Found /\ live.received \in 0..Len(Found[live.of].results)
        /\ filter.sort \in Report!Sorts /\ menus \subseteq {"type", "sort"}
        /\ opening \subseteq {"open", "seed"} /\ map.view \in {"blank", "loading", "nothing", "map"}
    BY <2>1 DEF PageTyped
  <2>4. /\ tab \in Report!Tabs /\ graphMode \in {"connections", "sources"}
        /\ {scripts.d3, scripts.boards} \subseteq {"absent", "loading", "loaded"}
        /\ nodeDetail # None => nodeDetail.of \in DOMAIN Found
    BY <2>1 DEF GraphInv, Progress
  <2>5. /\ timeline # None => timeline.of \in DOMAIN Found /\ timeline.expanded \in BOOLEAN
        /\ \A r \in DOMAIN asked : r.of \in DOMAIN Found /\ r.box \in 0..surface.box
    BY <2>1 DEF TimelineInv, Listed, AskedInv, Placed
  <2> QED
    BY <2>2, <2>3, <2>4, <2>5 DEF Report!ReportTypeOK, Report!Scans
<1> QED
  BY <1>4, <1>5, <1>6 DEF TypeOK

\* Page, lists, report, selection and all that is on its way are well typed in every reachable
\* state, and at most one request for a detail still counts.
THEOREM ConsoleTypes == Spec => []TypeOK
BY ConsoleInductive, TypesFollow, PTL

\* Once every answer is in, the buttons of a job on screen act on that copy of it, and it
\* is the job that is marked in the list, if one is.
THEOREM SelectionIsShown == Spec => []ShownIsSelected
<1>1. IInv => ShownIsSelected
  <2> SUFFICES ASSUME IInv,
                      ~Dialog!Pending({"list", "detail", "submit", "cancel", "delete"}),
                      rendered # None
               PROVE  /\ rendered = detail
                      /\ (selectedID # None /\ \E j \in Jobs : jobs[j] # "none")
                         => rendered.id = selectedID
    BY DEF ShownIsSelected, Dialog!ShownIsSelected
  <2>1. \A i \in DOMAIN requests : requests[i].kind \notin {"list", "detail"}
    BY DEF Dialog!Pending, Dialog!Range
  <2>2. ~HasList(requests)
    BY <2>1 DEF HasList
  <2>3. \A i \in DOMAIN requests : ~requests[i].last
    BY <2>1 DEF IInv, DialogInv, DialogTyped, Queue, Sound
  <2>4. \A j : ~HasDetail(requests, j)
    BY <2>3 DEF HasDetail
  <2> QED
    BY <2>2, <2>4 DEF IInv, DialogInv, Selection
<1> QED
  BY <1>1, ConsoleInductive, PTL

\* A job that is listed as running is polled for while it can be seen, and nothing is
\* polled, nor any panel of the account left open, after the sign-out.
THEOREM PollingIsNeeded == Spec => []PollsWhenNeeded
<1>1. IInv => Dialog!PolledWhileActive
  <2> SUFFICES ASSUME IInv, open, visible, Dialog!Active(jobs), ~pollTimer
               PROVE  \E r \in Dialog!Range(requests) : r.kind \in {"status", "list"} \/ r.poll
    BY DEF Dialog!PolledWhileActive
  <2>1. HasPoll(requests)
    BY DEF IInv, DialogInv, Polled
  <2> QED
    BY <2>1 DEF HasPoll, Dialog!Range
<1>2. IInv => QuietAfterLogout
  BY DEF IInv, DialogInv, Timer, AccountInv, Session, QuietAfterLogout
<1> QED
  BY <1>1, <1>2, ConsoleInductive, PTL DEF PollsWhenNeeded

\* A list on screen that is not the account's is about to be read, or changed: each change
\* that was answered is read back.
THEOREM ListsAreCurrent == Spec => []SettledListsAreCurrent
<1>1. IInv => SettledListsAreCurrent
  <2> SUFFICES ASSUME IInv, NEW L \in Account!Lists \ missed,
                      page = "in", ~Account!About(L)
               PROVE  shown[L] \in {Unseen, server[L]}
    BY DEF SettledListsAreCurrent, Account!SettledListsAreCurrent, Unseen
  <2>1. ASSUME NEW r \in DOMAIN pending, r.kind = "load", r.about = L
        PROVE  FALSE
    <3>1. r = [kind |-> r.kind, about |-> r.about, seen |-> r.seen]
      BY DEF IInv, AccountInv, ListsTyped, Pending
    <3>2. r = [Account!Load(L) EXCEPT !.seen = r.seen]
      BY <2>1, <3>1 DEF Account!Load, Account!Request
    <3> QED
      BY <3>2 DEF Account!About
  <2>2. ~Brought(L)
    BY <2>1 DEF Brought, Account!About, ListOf
  <2> QED
    BY <2>2 DEF IInv, AccountInv, Followed, Newest
<1> QED
  BY <1>1, ConsoleInductive, PTL

\* A year that is marked has events in the category that is chosen, and all is only shown
\* where there is more than the most recent.
THEOREM TimelineIsListed == Spec => []TimelineShowsChoice
<1>1. IInv => TimelineShowsChoice
  BY DEF IInv, ReportInv, TimelineInv, Listed, TimelineShowsChoice, Report!TimelineShowsChoice
<1> QED
  BY <1>1, ConsoleInductive, PTL

\* A report that has been drawn follows the filters, the mode of the graph and the
\* identity and fixes that come later, and none of another scan is drawn into it.
THEOREM ReportIsCurrent == Spec => []TabsAreCurrent
<1>1. IInv => TabsAreCurrent
  <2> SUFFICES ASSUME IInv, drawn
               PROVE  /\ grid.of # None => grid = Report!Cards(lastScanData, filter)
                      /\ tab = "graph" /\ waiting = None /\ graph # None
                         => graph = Report!Drawing(lastScanData, graphMode, profile)
                      /\ tab = "surface"
                         => surface.of = lastScanData /\ surface.fixes \in {None, lastScanData}
    BY DEF TabsAreCurrent, Report!TabsAreCurrent
  <2> QED
    BY DEF IInv, ReportInv, Current, SurfaceInv
<1> QED
  BY <1>1, ConsoleInductive, PTL

===============================================================================
