---------------------------- MODULE UserRequests_proofs ----------------------------
(***************************************************************************)
(* Theorems about what users ask for and what they are asked: Approvals    *)
(* and ControlQueue, for any users and commands.                           *)
(*                                                                         *)
(* A command that runs was let through by an answer, a grant, the          *)
(* allowlist or the policy; the first invariant, IInv, follows the leave   *)
(* there. That the leave is about this command, and not an earlier one of  *)
(* the child, is why nobody who does not wait may have an entry or an      *)
(* answer.                                                                 *)
(*                                                                         *)
(* A request that the listener handles is its own from the claim to the    *)
(* answer; the second invariant, ListenerInv, says at each place of the    *)
(* listener what was carried out and what is still true of the answer.     *)
(***************************************************************************)
EXTENDS Approvals, ControlQueue, Integers, SequenceTheorems, WellFoundedInduction, TLAPS

(* What the answers so far are good for. *)
Forever == {s.pattern : s \in {s \in said : s.choice \in ForGood}}
Smart   == {s.pattern : s \in {s \in said : s.choice = "smart"}}
Yes     == {s.asker : s \in {s \in said : s.choice # "deny"}}
Read    == {p \in Patterns : PassedByReading(p)}
Approves == Unattended = "approve" /\ ~Interactive
Passed  == Forever \cup Read \cup (IF OnCommandLine THEN {} ELSE Smart)
LeaveOf == [c \in Children |->
              {n \in DOMAIN issued[c] : Allowed(c, n) \/ PassedByReading(issued[c][n].pattern)}]

(* Who has an entry waits for an answer, and has one entry. *)
Entries  == {queue[i] : i \in DOMAIN queue}
Distinct == \A i, j \in DOMAIN queue : queue[i] = queue[j] => i = j
QueueInv ==
  /\ Distinct
  /\ Entries # {} => setup.surface = "gateway"
  /\ \A a \in Entries : /\ reply[a] = "none"
                        /\ a \in Children => place[a] = "entry"
                        /\ a \in Launches => MayHaveEntry(a)

(* Who has an answer asked for it, and the answer is one to this command.   *)
ReplyInv ==
  /\ \A c \in Children :
       /\ reply[c] # "none" => place[c] \in {"answered", "entry"}
       /\ reply[c] \notin {"none", "deny"} => Len(issued[c]) \in LeaveOf[c]
       /\ reply[c] \in ForGood => Pattern(c) \in Forever
  /\ \A l \in Launches :
       /\ launch[l] = "idle" => reply[l] = "none"
       /\ reply[l] \notin {"none", "deny"} => l \in Yes
       /\ launch[l] = "launched" /\ setup.gated => l \in Yes

(* What is approved for a session was let through for good, and what no     *)
(* callback and no button can be asked for was let through by the hook.     *)
GrantInv ==
  /\ granted \subseteq Forever
  /\ allowlist \subseteq setup.allowlist \cup Forever
  /\ Approves \/ session \subseteq Passed
  /\ Interactive => Forever \cap Patterns \subseteq granted
  /\ \A c \in Children :
       /\ place[c] = "host" /\ ChildSurface = "headless" =>
            Pattern(c) \in allowlist \cup session
       /\ place[c] \in {"queued", "asking"} => Interactive

RunsInv == \A c \in Children : ran[c] \subseteq LeaveOf[c]

IInv == TypeOK /\ QueueInv /\ ReplyInv /\ GrantInv /\ RunsInv

USE AskersAssumption, CommandsAssumption, SetupsAssumption
USE DEF Askers, Answers, ForGood, Places, Stages, Events, hostVars, coordVars, callVars

-----------------------------------------------------------------------------
(* The queue. *)
LEMMA Appended ==
  ASSUME queue \in Seq(Askers), Distinct, NEW a \in Askers, a \notin Entries,
         queue' = Append(queue, a)
  PROVE  queue' \in Seq(Askers) /\ Distinct' /\ Entries' = Entries \cup {a}
<1>1. /\ queue' \in Seq(Askers) /\ Len(queue') = Len(queue) + 1
      /\ DOMAIN queue = 1 .. Len(queue) /\ DOMAIN queue' = 1 .. Len(queue) + 1
      /\ queue'[Len(queue) + 1] = a /\ \A i \in DOMAIN queue : queue'[i] = queue[i]
  OBVIOUS
<1>2. Len(queue) \in Nat
  OBVIOUS
<1>3. Entries' = Entries \cup {a}
  BY <1>1, <1>2 DEF Entries
<1>4. Distinct'
  BY <1>1, <1>2 DEF Entries, Distinct
<1> QED  BY <1>1, <1>3, <1>4

LEMMA Popped ==
  ASSUME queue \in Seq(Askers), Distinct, queue # <<>>, queue' = Tail(queue)
  PROVE  /\ queue' \in Seq(Askers) /\ Distinct'
         /\ Head(queue) \in Entries /\ Entries' \subseteq Entries \ {Head(queue)}
<1>1. /\ queue' \in Seq(Askers) /\ Len(queue') = Len(queue) - 1 /\ Len(queue) \in Nat \ {0}
      /\ DOMAIN queue = 1 .. Len(queue) /\ DOMAIN queue' = 1 .. Len(queue) - 1
      /\ \A i \in DOMAIN queue' : queue'[i] = queue[i + 1]
      /\ Head(queue) = queue[1]
  OBVIOUS
<1>2. Head(queue) \in Entries /\ Distinct'
  BY <1>1 DEF Entries, Distinct
<1>3. Entries' \subseteq Entries \ {Head(queue)}
  BY <1>1 DEF Entries, Distinct
<1> QED  BY <1>1, <1>2, <1>3

LEMMA RemovedAt ==
  ASSUME NEW S, NEW s \in Seq(S), NEW k \in 1 .. Len(s)
  PROVE  /\ RemoveAt(s, k) \in Seq(S) /\ Len(RemoveAt(s, k)) = Len(s) - 1
         /\ \A i \in 1 .. Len(s) - 1 :
              /\ i < k => RemoveAt(s, k)[i] = s[i]
              /\ i >= k => RemoveAt(s, k)[i] = s[i + 1]
<1> DEFINE n     == Len(s)
           front == SubSeq(s, 1, k - 1)
           rear  == SubSeq(s, k + 1, n)
<1>1. n \in Nat /\ k \in Int /\ 1 <= k /\ k <= n
  OBVIOUS
<1>2. \A i \in 1 .. n : s[i] \in S
  OBVIOUS
<1> HIDE DEF n
<1>3. /\ front \in Seq(S) /\ Len(front) = k - 1
      /\ \A i \in 1 .. k - 1 : front[i] = s[i]
  <2>1. \A i \in 1 .. k - 1 : s[i] \in S
    BY <1>1, <1>2
  <2> QED  BY <1>1, <2>1, SubSeqProperties
<1>4. /\ rear \in Seq(S) /\ Len(rear) = n - k
      /\ \A i \in 1 .. n - k : rear[i] = s[k + i]
  <2>1. \A i \in k + 1 .. n : s[i] \in S
    BY <1>1, <1>2
  <2>2. /\ rear \in Seq(S) /\ Len(rear) = IF k + 1 <= n THEN n - (k + 1) + 1 ELSE 0
        /\ \A i \in 1 .. n - (k + 1) + 1 : rear[i] = s[(k + 1) + i - 1]
    BY <1>1, <2>1, SubSeqProperties
  <2> HIDE DEF rear
  <2> QED  BY <1>1, <2>2
<1> HIDE DEF front, rear
<1>5. /\ front \o rear \in Seq(S) /\ Len(front \o rear) = (k - 1) + (n - k)
      /\ \A i \in 1 .. (k - 1) + (n - k) :
           (front \o rear)[i] = IF i <= k - 1 THEN front[i] ELSE rear[i - (k - 1)]
  <2>1. /\ front \o rear \in Seq(S) /\ Len(front \o rear) = Len(front) + Len(rear)
        /\ \A i \in 1 .. Len(front) + Len(rear) :
             (front \o rear)[i] = IF i <= Len(front) THEN front[i] ELSE rear[i - Len(front)]
    <3>1. front \in Seq(S) /\ rear \in Seq(S)
      BY <1>3, <1>4
    <3> QED  BY ONLY <3>1, ConcatProperties
  <2> QED  BY <1>3, <1>4, <2>1
<1>6. RemoveAt(s, k) = front \o rear
  BY DEF RemoveAt, front, rear, n
<1>7. (k - 1) + (n - k) = n - 1
  BY <1>1
<1>8. ASSUME NEW i \in 1 .. n - 1, i >= k
      PROVE  (front \o rear)[i] = s[i + 1]
  <2>1. i - (k - 1) \in 1 .. n - k /\ k + (i - (k - 1)) = i + 1
    BY <1>1, <1>8
  <2>2. (front \o rear)[i] = rear[i - (k - 1)]
    BY <1>1, <1>5, <1>7, <1>8
  <2> QED  BY <1>4, <2>1, <2>2
<1>9. ASSUME NEW i \in 1 .. n - 1, i < k
      PROVE  (front \o rear)[i] = s[i]
  BY <1>1, <1>3, <1>5, <1>7, <1>9
<1> QED  BY <1>5, <1>6, <1>7, <1>8, <1>9 DEF n

LEMMA Withdrawn ==
  ASSUME queue \in Seq(Askers), Distinct, NEW a, Withdraw(a)
  PROVE  queue' \in Seq(Askers) /\ Distinct' /\ Entries' \subseteq Entries \ {a}
<1>1. CASE \E i \in DOMAIN queue : queue[i] = a
  <2>1. PICK k \in DOMAIN queue : queue[k] = a /\ queue' = RemoveAt(queue, k)
    BY <1>1 DEF Withdraw
  <2>2. DOMAIN queue = 1 .. Len(queue) /\ Len(queue) \in Nat /\ k \in 1 .. Len(queue)
    BY <2>1
  <2>3. /\ queue' \in Seq(Askers) /\ Len(queue') = Len(queue) - 1
        /\ \A i \in 1 .. Len(queue) - 1 :
             /\ i < k => queue'[i] = queue[i]
             /\ i >= k => queue'[i] = queue[i + 1]
    BY <2>1, <2>2, RemovedAt
  <2>4. DOMAIN queue' = 1 .. Len(queue) - 1
    BY <2>3
  <2>5. \A i \in DOMAIN queue' :
          /\ i < k => i \in DOMAIN queue \ {k} /\ queue'[i] = queue[i]
          /\ i >= k => i + 1 \in DOMAIN queue \ {k} /\ queue'[i] = queue[i + 1]
          /\ i \in Int
    BY <2>2, <2>3, <2>4
  <2>6. k \in Int
    BY <2>2
  <2>7. Distinct'
    BY <2>5, <2>6 DEF Distinct
  <2>8. Entries' \subseteq Entries \ {a}
    BY <2>1, <2>5, <2>6 DEF Entries, Distinct
  <2> QED  BY <2>3, <2>7, <2>8
<1>2. CASE ~\E i \in DOMAIN queue : queue[i] = a
  BY <1>2 DEF Withdraw, Distinct, Entries
<1> QED  BY <1>1, <1>2

-----------------------------------------------------------------------------
(* No step takes back what the user said or a child asked for. *)
Grows ==
  /\ setup' = setup /\ said \subseteq said'
  /\ DOMAIN issued' = Children
  /\ \A c \in Children : \A n \in DOMAIN issued[c] :
       n \in DOMAIN issued'[c] /\ issued'[c][n] = issued[c][n]

LEMMA NextGrows == ASSUME TypeOK, Next PROVE Grows
<1>1. ASSUME NEW c \in Children, NEW cmd \in Commands, Issue(c, cmd)
      PROVE  Grows
  <2>1. \A n \in DOMAIN issued[c] :
          n \in DOMAIN Append(issued[c], cmd) /\ Append(issued[c], cmd)[n] = issued[c][n]
    <3>1. issued[c] \in Seq(Commands)
      BY DEF TypeOK
    <3> QED  BY <3>1
  <2>2. issued' = [issued EXCEPT ![c] = Append(issued[c], cmd)] /\ DOMAIN issued = Children
    BY <1>1 DEF Issue, TypeOK
  <2>3. setup' = setup /\ said' = said
    BY <1>1 DEF Issue
  <2> QED  BY <2>1, <2>2, <2>3 DEF Grows
<1>2. ASSUME NEW c \in Children, Leave(c) \/ Interrupt(c) \/ TimeOut(c) \/ Abandon(c)
      PROVE  UNCHANGED <<setup, issued>> /\ said \subseteq said'
  BY <1>2 DEF Leave, Interrupt, TimeOut, Abandon
<1>3. ASSUME NEW c \in Children, Gate(c) \/ Host(c)
      PROVE  UNCHANGED <<setup, issued>> /\ said \subseteq said'
  BY <1>3 DEF Gate, GateDefers, GateAllows, GateBlocks, Host, HostRuns, HostPends, HostQueues,
              EntryExpires, HostHears
<1>4. ASSUME NEW c \in Children, Callback(c)
      PROVE  UNCHANGED <<setup, issued>> /\ said \subseteq said'
  BY <1>4 DEF Callback, CallbackDecides, FastPath, QueuePrompt, ReuseGrant, AskUser, PromptFails,
              UserAnswers
<1>5. ASSUME NEW l \in Launches, Launch(l)
      PROVE  UNCHANGED <<setup, issued>> /\ said \subseteq said'
  BY <1>5 DEF Launch, LaunchUnasked, LaunchAppends, LaunchNotifies, LaunchNotNotified, LaunchRaises,
              LaunchHears, LaunchTimesOut, LaunchGivesUp, LaunchConfirmed
<1>6. ASSUME (\E choice \in Answers : Tap(choice)) \/ TurnChanges
      PROVE  UNCHANGED <<setup, issued>> /\ said \subseteq said'
  BY <1>6 DEF Tap, TurnChanges
<1>7. UNCHANGED <<setup, issued>> /\ said \subseteq said' => Grows
  BY DEF Grows, TypeOK
<1> QED  BY <1>1, <1>2, <1>3, <1>4, <1>5, <1>6, <1>7 DEF Next, Child

(* So what allowed a command allows it ever after. *)
LEMMA LeavesStay ==
  ASSUME TypeOK, Grows
  PROVE  /\ Forever \subseteq Forever' /\ Smart \subseteq Smart' /\ Yes \subseteq Yes'
         /\ Read \subseteq Read' /\ Passed \subseteq Passed' /\ Approves' = Approves
         /\ \A c \in Children : LeaveOf[c] \subseteq LeaveOf'[c]
<1>1. /\ Forever \subseteq Forever' /\ Smart \subseteq Smart' /\ Yes \subseteq Yes'
  BY DEF Grows, Forever, Smart, Yes
<1>2. /\ OnCommandLine' = OnCommandLine /\ Interactive' = Interactive /\ Unattended' = Unattended
  BY DEF Grows, OnCommandLine, Interactive, Captured, Policy, Unattended
<1>3. Read \subseteq Read'
  BY DEF Grows, Read, PassedByReading
<1>4. Passed \subseteq Passed' /\ Approves' = Approves
  BY <1>1, <1>2, <1>3 DEF Passed, Approves
<1>5. ASSUME NEW c \in Children, NEW n \in DOMAIN issued[c], Allowed(c, n)
      PROVE  Allowed(c, n)'
  <2>1. n \in DOMAIN issued'[c] /\ issued'[c][n] = issued[c][n] /\ setup' = setup
    BY DEF Grows
  <2>2. SaidYes(c, n) => SaidYes(c, n)'
    BY <1>2, <2>1 DEF Grows, SaidYes
  <2> QED  BY <1>2, <1>5, <2>1, <2>2 DEF Allowed
<1>6. ASSUME NEW c \in Children, NEW n \in LeaveOf[c]
      PROVE  n \in LeaveOf'[c]
  <2>1. n \in DOMAIN issued'[c] /\ issued'[c][n] = issued[c][n]
    BY DEF Grows, LeaveOf
  <2>2. PassedByReading(issued[c][n].pattern) => PassedByReading(issued[c][n].pattern)'
    BY <2>1 DEF Grows, PassedByReading
  <2> QED  BY <1>5, <2>1, <2>2 DEF LeaveOf
<1> QED  BY <1>1, <1>3, <1>4, <1>6

-----------------------------------------------------------------------------
(* Types. *)
LEMMA IssueKeepsType ==
  ASSUME TypeOK, NEW c \in Children, NEW cmd \in Commands, Issue(c, cmd)
  PROVE  TypeOK'
<1>1. /\ issued' = [issued EXCEPT ![c] = Append(issued[c], cmd)]
      /\ observed' = IF Registered(c) THEN [observed EXCEPT ![c] = @ + 1] ELSE observed
      /\ place' = [place EXCEPT ![c] = "hook"]
      /\ place[c] = "busy"
      /\ UNCHANGED <<setup, hostVars, coordVars, reply, call, interrupted, shown, queue, launch, ran>>
  BY DEF Issue, Notify
<1>2. /\ Append(issued[c], cmd) \in Seq(Commands) /\ Append(issued[c], cmd) # <<>>
      /\ Len(Append(issued[c], cmd)) = Len(issued[c]) + 1
      /\ \A d \in Children : Len(issued[d]) \in Nat
  <2>1. \A d \in Children : issued[d] \in Seq(Commands)
    BY DEF TypeOK
  <2> QED  BY <2>1
<1>3. /\ issued' \in [Children -> Seq(Commands)]
      /\ \A d \in Children : place'[d] \in Places \ {"busy", "left"} => issued'[d] # <<>>
  BY <1>1, <1>2 DEF TypeOK
<1>4. /\ observed' \in [Children -> Nat]
      /\ \A d \in Children : /\ observed'[d] <= Len(issued'[d])
                             /\ Registered(d)' => observed'[d] = Len(issued'[d])
  BY <1>1, <1>2 DEF TypeOK, Registered
<1>5. \A d \in Children : ran'[d] \subseteq 1 .. Len(issued'[d])
  BY <1>1, <1>2 DEF TypeOK
<1> QED  BY <1>1, <1>3, <1>4, <1>5 DEF TypeOK

(* The command a child waits for. *)
LEMMA LastCommand ==
  ASSUME TypeOK, NEW c \in Children, place[c] \notin {"busy", "left"}
  PROVE  /\ Len(issued[c]) \in DOMAIN issued[c] /\ Len(issued[c]) \in 1 .. Len(issued[c])
         /\ issued[c][Len(issued[c])] = Command(c) /\ Command(c) \in Commands
         /\ Pattern(c) = Command(c).pattern /\ Pattern(c) \in Patterns
         /\ ReadOnly(c) = Command(c).readOnly
<1>1. issued[c] \in Seq(Commands) /\ issued[c] # <<>>
  BY DEF TypeOK
<1>2. /\ Len(issued[c]) \in DOMAIN issued[c] /\ Len(issued[c]) \in 1 .. Len(issued[c])
      /\ issued[c][Len(issued[c])] \in Commands
  BY <1>1
<1> QED  BY <1>2 DEF Command, Pattern, ReadOnly, Last

LEMMA ChildKeepsType ==
  ASSUME TypeOK, NEW c \in Children, queue' \in Seq(Askers),
         Leave(c) \/ Interrupt(c) \/ TimeOut(c) \/ Abandon(c)
  PROVE  TypeOK'
<1>1. CASE Leave(c)
  BY <1>1 DEF TypeOK, Leave, Registered
<1>2. CASE Interrupt(c)
  BY <1>2 DEF TypeOK, Interrupt, Registered
<1>3. CASE TimeOut(c)
  BY <1>3 DEF TypeOK, TimeOut, Registered
<1>4. CASE Abandon(c)
  BY <1>4 DEF TypeOK, Abandon, Registered
<1> QED  BY <1>1, <1>2, <1>3, <1>4

LEMMA HostKeepsType ==
  ASSUME TypeOK, NEW c \in Children, queue' \in Seq(Askers), Gate(c) \/ Host(c)
  PROVE  TypeOK'
<1> USE DEF TypeOK, Registered
<1>0. place[c] \notin {"busy", "left"} =>
        Pattern(c) \in Patterns /\ Len(issued[c]) \in 1 .. Len(issued[c])
  BY LastCommand
<1>1. CASE GateDefers(c)
  BY <1>1 DEF GateDefers
<1>2. CASE GateAllows(c)
  BY <1>0, <1>2 DEF GateAllows, OnAllow
<1>3. CASE GateBlocks(c)
  BY <1>3 DEF GateBlocks
<1>4. CASE HostRuns(c)
  BY <1>0, <1>4 DEF HostRuns, Run
<1>5. CASE HostPends(c)
  BY <1>5 DEF HostPends
<1>6. CASE HostQueues(c)
  BY <1>6 DEF HostQueues
<1>7. CASE EntryExpires(c)
  BY <1>7 DEF EntryExpires
<1>8. CASE HostHears(c)
  <2>1. /\ place' = [place EXCEPT ![c] = "busy"]
        /\ reply' = [reply EXCEPT ![c] = "none"]
        /\ ran' = ran \/ ran' = [ran EXCEPT ![c] = @ \cup {Len(issued[c])}]
        /\ place[c] \in {"answered", "entry"}
        /\ UNCHANGED <<setup, channel, coordVars, issued, callVars, shown, queue, launch>>
    BY <1>8 DEF HostHears, Run
  <2>2. allowlist' \subseteq Patterns /\ session' \subseteq Patterns
    BY <1>0, <1>8 DEF HostHears
  <2>3. \A d \in Children : ran'[d] \subseteq 1 .. Len(issued[d])
    <3>1. Len(issued[c]) \in 1 .. Len(issued[c])
      BY <1>0, <2>1
    <3>2. CASE ran' = ran
      BY <3>2
    <3>3. CASE ran' = [ran EXCEPT ![c] = @ \cup {Len(issued[c])}]
      BY <3>1, <3>3
    <3> QED  BY <2>1, <3>2, <3>3
  <2>4. ran' \in [Children -> SUBSET Nat]
    <3>1. Len(issued[c]) \in Nat
      OBVIOUS
    <3>2. CASE ran' = [ran EXCEPT ![c] = @ \cup {Len(issued[c])}]
      <4>1. ran[c] \cup {Len(issued[c])} \in SUBSET Nat
        BY <3>1
      <4> QED  BY <3>2, <4>1
    <3> QED  BY <2>1, <3>2
  <2> QED  BY <2>1, <2>2, <2>3, <2>4
<1> QED  BY <1>1, <1>2, <1>3, <1>4, <1>5, <1>6, <1>7, <1>8 DEF Gate, Host

LEMMA CallbackKeepsType ==
  ASSUME TypeOK, NEW c \in Children, queue' \in Seq(Askers), Callback(c)
  PROVE  TypeOK'
<1> USE DEF TypeOK, Registered, Answered, Journal, AtCallback
<1>0. place[c] \notin {"busy", "left"} => Pattern(c) \in Patterns
  BY LastCommand
<1>1. CASE CallbackDecides(c)
  <2>1. PICK choice \in Answers : Answered(c, choice)
    BY <1>1 DEF CallbackDecides
  <2>2. place[c] = "host" /\ UNCHANGED <<setup, hostVars, coordVars, issued, callVars, shown, launch, ran>>
    BY <1>1 DEF CallbackDecides
  <2> QED  BY <2>1, <2>2
<1>2. CASE FastPath(c)
  BY <1>2 DEF FastPath
<1>3. CASE QueuePrompt(c)
  BY <1>3 DEF QueuePrompt
<1>4. CASE ReuseGrant(c)
  BY <1>4 DEF ReuseGrant
<1>5. CASE AskUser(c)
  BY <1>5 DEF AskUser
<1>6. CASE PromptFails(c)
  <2>1. holder = c /\ \A d \in Children : place[d] = "asking" => d = c
    BY <1>6 DEF PromptFails
  <2>2. /\ holder' = Nobody /\ place' = [place EXCEPT ![c] = "answered"]
        /\ reply' = [reply EXCEPT ![c] = "deny"]
        /\ UNCHANGED <<setup, hostVars, granted, issued, callVars, shown, launch, ran>>
    BY <1>6 DEF PromptFails
  <2> QED  BY <2>1, <2>2
<1>7. ASSUME NEW choice \in Answers, UserAnswers(c, choice)
      PROVE  TypeOK'
  BY <1>0, <1>7 DEF UserAnswers
<1> QED  BY <1>1, <1>2, <1>3, <1>4, <1>5, <1>6, <1>7 DEF Callback

LEMMA LaunchKeepsType ==
  ASSUME TypeOK, NEW l \in Launches, queue' \in Seq(Askers), Launch(l)
  PROVE  TypeOK'
<1>1. /\ UNCHANGED <<setup, hostVars, coordVars, issued, place, reply, callVars, shown, ran>>
      /\ launch' \in [Launches -> Stages]
  BY DEF TypeOK, Launch, LaunchUnasked, LaunchAppends, LaunchNotifies, LaunchNotNotified,
         LaunchRaises,
         LaunchHears, LaunchTimesOut, LaunchGivesUp, LaunchConfirmed, Decide
<1> QED  BY <1>1 DEF TypeOK, Registered

LEMMA NextKeepsType == ASSUME TypeOK, queue' \in Seq(Askers), Next PROVE TypeOK'
<1>1. ASSUME NEW choice \in Answers, Tap(choice) PROVE TypeOK'
  <2>1. Head(queue) \in Askers
    BY <1>1 DEF TypeOK, Tap
  <2> QED  BY <1>1, <2>1 DEF TypeOK, Tap, Registered
<1>2. CASE TurnChanges
  BY <1>2 DEF TypeOK, TurnChanges, Registered
<1> QED  BY <1>1, <1>2, IssueKeepsType, ChildKeepsType, HostKeepsType, CallbackKeepsType,
            LaunchKeepsType DEF Next, Child

-----------------------------------------------------------------------------
(* Entries and answers. *)
Turn == {"appended", "waiting", "timedout", "raised"}

LEMMA QueueStaysUnless ==
  ASSUME QueueInv, setup' = setup, queue' \in Seq(Askers), Distinct', Entries' \subseteq Entries,
         \A a \in Entries' : /\ reply'[a] = reply[a]
                             /\ a \in Children => place'[a] = place[a]
                             /\ a \in Launches => launch'[a] = launch[a] \/ launch'[a] \in Turn
  PROVE  QueueInv'
<1>1. (Entries # {})' => setup'.surface = "gateway"
  BY DEF QueueInv
<1>2. ASSUME NEW a \in Entries'
      PROVE  /\ reply'[a] = "none"
             /\ a \in Children => place'[a] = "entry"
             /\ a \in Launches => MayHaveEntry(a)'
  <2>1. a \in Entries
    OBVIOUS
  <2>2. reply[a] = "none" /\ (a \in Children => place[a] = "entry") /\ (a \in Launches => MayHaveEntry(a))
    BY <2>1 DEF QueueInv
  <2> QED  BY <2>2 DEF MayHaveEntry, InTurn, Turn
<1> QED  BY <1>1, <1>2 DEF QueueInv

LEMMA NextKeepsQueue ==
  ASSUME IInv, Next
  PROVE  queue' \in Seq(Askers) /\ QueueInv'
<1> USE DEF IInv
<1>1. /\ queue \in Seq(Askers) /\ Distinct /\ setup' = setup
      /\ Entries \subseteq Askers
  BY NextGrows DEF TypeOK, QueueInv, Grows, Entries
<1>2. queue' = queue => queue' \in Seq(Askers) /\ Distinct' /\ Entries' = Entries
  BY <1>1 DEF Distinct, Entries
<1>3. ASSUME NEW c \in Children,
             (\E cmd \in Commands : Issue(c, cmd)) \/ Leave(c) \/ Interrupt(c) \/ TimeOut(c) \/ Abandon(c)
      PROVE  queue' \in Seq(Askers) /\ QueueInv'
  <2>1. /\ UNCHANGED <<queue, reply, launch>>
        /\ place' = place \/ (place[c] # "entry" /\ \E p : place' = [place EXCEPT ![c] = p])
    BY <1>3 DEF Issue, Leave, Interrupt, TimeOut, Abandon
  <2>2. \A a \in Entries : a \in Children => place'[a] = place[a]
    BY <2>1 DEF QueueInv, TypeOK
  <2> QED  BY <1>1, <1>2, <2>1, <2>2, QueueStaysUnless
<1>4. ASSUME NEW c \in Children, Gate(c) \/ HostRuns(c) \/ HostPends(c) \/ Callback(c)
      PROVE  queue' \in Seq(Askers) /\ QueueInv'
  <2>1. /\ UNCHANGED <<queue, launch>> /\ place[c] # "entry"
        /\ \E p : place' = [place EXCEPT ![c] = p]
        /\ reply' = reply \/ \E r : reply' = [reply EXCEPT ![c] = r]
    BY <1>4 DEF Gate, GateDefers, GateAllows, GateBlocks, HostRuns, HostPends, Run, Callback,
                CallbackDecides, FastPath, QueuePrompt, ReuseGrant, AskUser, PromptFails,
                UserAnswers, Answered, AtCallback
  <2>2. c \notin Entries
    BY <2>1 DEF QueueInv
  <2>3. \A a \in Entries : reply'[a] = reply[a] /\ (a \in Children => place'[a] = place[a])
    BY <1>1, <2>1, <2>2 DEF TypeOK
  <2> QED  BY <1>1, <1>2, <2>1, <2>3, QueueStaysUnless
<1>5. ASSUME NEW c \in Children, HostQueues(c)
      PROVE  queue' \in Seq(Askers) /\ QueueInv'
  <2>1. c \notin Entries /\ reply[c] = "none"
    BY <1>5 DEF HostQueues, QueueInv, ReplyInv
  <2>2. queue' \in Seq(Askers) /\ Distinct' /\ Entries' = Entries \cup {c}
    BY <1>1, <1>5, <2>1, Appended DEF HostQueues
  <2>3. setup.surface = "gateway"
    BY <1>5 DEF HostQueues, HasGatewayChannel, TypeOK
  <2>4. UNCHANGED <<reply, launch>> /\ place' = [place EXCEPT ![c] = "entry"]
    BY <1>5 DEF HostQueues
  <2> QED  BY <1>1, <2>1, <2>2, <2>3, <2>4 DEF QueueInv, TypeOK, MayHaveEntry, InTurn
<1>6. ASSUME NEW c \in Children, EntryExpires(c) \/ HostHears(c)
      PROVE  queue' \in Seq(Askers) /\ QueueInv'
  <2>1. /\ queue' \in Seq(Askers) /\ Distinct' /\ Entries' \subseteq Entries \ {c}
    <3>1. CASE EntryExpires(c)
      BY <1>1, <3>1, Withdrawn DEF EntryExpires
    <3>2. CASE HostHears(c)
      BY <1>1, <1>2, <3>2 DEF HostHears, QueueInv
    <3> QED  BY <1>6, <3>1, <3>2
  <2>2. /\ launch' = launch
        /\ \E p : place' = [place EXCEPT ![c] = p]
        /\ reply' = reply \/ \E r : reply' = [reply EXCEPT ![c] = r]
    BY <1>6 DEF EntryExpires, HostHears, Run
  <2>3. \A a \in Entries' : reply'[a] = reply[a] /\ (a \in Children => place'[a] = place[a])
    BY <1>1, <2>1, <2>2 DEF TypeOK
  <2> QED  BY <1>1, <2>1, <2>2, <2>3, QueueStaysUnless
<1>7. ASSUME NEW l \in Launches, LaunchUnasked(l)
             \/ (\E choice \in Answers : LaunchConfirmed(l, choice))
             \/ LaunchNotifies(l) \/ LaunchRaises(l) \/ LaunchTimesOut(l)
      PROVE  queue' \in Seq(Askers) /\ QueueInv'
  <2>1. /\ UNCHANGED <<queue, reply, place>>
        /\ \E s : /\ launch' = [launch EXCEPT ![l] = s]
                  /\ s \in {"waiting", "raised", "timedout"} \/ launch[l] = "idle"
    BY <1>7 DEF LaunchUnasked, LaunchConfirmed, LaunchNotifies, LaunchRaises, LaunchTimesOut, Decide
  <2>2. \A a \in Entries : a \in Launches => launch'[a] = launch[a] \/ launch'[a] \in Turn
    BY <2>1 DEF QueueInv, MayHaveEntry, InTurn, TypeOK, Turn
  <2> QED  BY <1>1, <1>2, <2>1, <2>2, QueueStaysUnless
<1>8. ASSUME NEW l \in Launches, LaunchAppends(l)
      PROVE  queue' \in Seq(Askers) /\ QueueInv'
  <2>1. l \notin Entries /\ reply[l] = "none" /\ l \notin Children
    BY <1>8 DEF LaunchAppends, QueueInv, ReplyInv, MayHaveEntry, InTurn
  <2>2. queue' \in Seq(Askers) /\ Distinct' /\ Entries' = Entries \cup {l}
    BY <1>1, <1>8, <2>1, Appended DEF LaunchAppends
  <2>3. /\ setup.surface = "gateway" /\ UNCHANGED <<reply, place>>
        /\ launch' = [launch EXCEPT ![l] = "appended"]
    BY <1>8 DEF LaunchAppends
  <2> QED  BY <1>1, <2>1, <2>2, <2>3 DEF QueueInv, TypeOK, MayHaveEntry, InTurn
<1>9. ASSUME NEW l \in Launches, LaunchNotNotified(l) \/ LaunchHears(l) \/ LaunchGivesUp(l)
      PROVE  queue' \in Seq(Askers) /\ QueueInv'
  <2>1. /\ queue' \in Seq(Askers) /\ Distinct' /\ Entries' \subseteq Entries \ {l}
    BY <1>1, <1>9, Withdrawn DEF LaunchNotNotified, LaunchHears, LaunchGivesUp
  <2>2. UNCHANGED <<reply, place>> /\ \E s : launch' = [launch EXCEPT ![l] = s]
    BY <1>9 DEF LaunchNotNotified, LaunchHears, LaunchGivesUp, Decide
  <2>3. \A a \in Entries' : a \in Launches => launch'[a] = launch[a]
    BY <2>1, <2>2 DEF TypeOK
  <2> QED  BY <1>1, <2>1, <2>2, <2>3, QueueStaysUnless
<1>10. ASSUME NEW choice \in Answers, Tap(choice)
      PROVE  queue' \in Seq(Askers) /\ QueueInv'
  <2>1. queue' \in Seq(Askers) /\ Distinct' /\ Entries' \subseteq Entries \ {Head(queue)}
    BY <1>1, <1>10, Popped DEF Tap
  <2>2. UNCHANGED <<place, launch>> /\ reply' = [reply EXCEPT ![Head(queue)] = choice]
    BY <1>10 DEF Tap
  <2>3. \A a \in Entries' : reply'[a] = reply[a]
    BY <2>1, <2>2 DEF TypeOK
  <2> QED  BY <1>1, <2>1, <2>2, <2>3, QueueStaysUnless
<1>11. CASE TurnChanges
  <2>1. UNCHANGED <<queue, reply, place, launch>>
    BY <1>11 DEF TurnChanges
  <2> QED  BY <1>1, <1>2, <2>1, QueueStaysUnless
<1> QED  BY <1>3, <1>4, <1>5, <1>6, <1>7, <1>8, <1>9, <1>10, <1>11 DEF Next, Child, Host, Launch

-----------------------------------------------------------------------------
(* What lets a command pass. *)
LEMMA PolicyTypes ==
  ASSUME TypeOK
  PROVE  /\ Unattended \in {"smart", "approve", "deny"}
         /\ OnCommandLine <=> setup.surface = "cli"
         /\ Interactive => OnCommandLine
  BY DEF TypeOK, Unattended, Policy, Surfaces, Policies, Modes, Fallbacks, OnCommandLine,
         Interactive, Captured

LEMMA GoodForThis ==
  ASSUME TypeOK, NEW c \in Children, place[c] \notin {"busy", "left"},
         \/ Pattern(c) \in setup.allowlist \cup Passed
         \/ Approves
         \/ ReadOnly(c) /\ (~OnCommandLine \/ Interactive)
         \/ \E s \in said : s.asker = c /\ s.number = Len(issued[c]) /\ s.choice # "deny"
  PROVE  Len(issued[c]) \in LeaveOf[c]
<1> DEFINE n == Len(issued[c])
<1>1. /\ n \in DOMAIN issued[c] /\ issued[c][n].pattern = Pattern(c)
      /\ issued[c][n].readOnly = ReadOnly(c) /\ Pattern(c) \in Patterns
  BY LastCommand
<1> HIDE DEF n
<1>2. Pattern(c) \in Forever => SaidYes(c, n)
  BY <1>1 DEF Forever, SaidYes
<1>3. Pattern(c) \in Smart /\ ~OnCommandLine => SaidYes(c, n)
  BY <1>1 DEF Smart, SaidYes
<1>4. Pattern(c) \in Read => PassedByReading(Pattern(c))
  BY DEF Read
<1>5. (\E s \in said : s.asker = c /\ s.number = n /\ s.choice # "deny") => SaidYes(c, n)
  BY DEF SaidYes
<1>6. Allowed(c, n) \/ PassedByReading(issued[c][n].pattern)
  BY <1>1, <1>2, <1>3, <1>4, <1>5 DEF Allowed, Passed, Approves, n
<1> QED  BY <1>1, <1>6 DEF LeaveOf, n

(* What an answer is good for once it is said. *)
LEMMA WhatIsSaid ==
  ASSUME NEW a \in Askers, NEW choice, Said(a, choice) \in said'
  PROVE  /\ choice # "deny" => a \in Yes'
         /\ a \in Children /\ choice \in ForGood => Pattern(a) \in Forever'
         /\ a \in Children /\ choice # "deny" =>
              \E s \in said' : s.asker = a /\ s.number = Len(issued[a]) /\ s.choice # "deny"
<1> DEFINE w == Said(a, choice)
<1>1. /\ w \in said' /\ w.asker = a /\ w.choice = choice
      /\ a \in Children => w.number = Len(issued[a]) /\ w.pattern = Pattern(a)
  BY DEF Said
<1> HIDE DEF w
<1>2. choice # "deny" => a \in Yes'
  BY <1>1 DEF Yes
<1>3. a \in Children /\ choice \in ForGood => Pattern(a) \in Forever'
  BY <1>1 DEF Forever
<1> QED  BY <1>1, <1>2, <1>3

(* Answers, when a step of a child gives or takes one. *)
LEMMA RepliesStayUnless ==
  ASSUME IInv, Grows, NEW c \in Children, launch' = launch,
         \A d \in Children \ {c} : /\ reply'[d] = reply[d] /\ place'[d] = place[d]
                                   /\ issued'[d] = issued[d],
         \A l \in Launches : reply'[l] = reply[l],
         reply'[c] # "none" => place'[c] \in {"answered", "entry"},
         reply'[c] \notin {"none", "deny"} => Len(issued'[c]) \in LeaveOf'[c],
         reply'[c] \in ForGood => Last(issued'[c]).pattern \in Forever'
  PROVE  ReplyInv'
<1>1. /\ Forever \subseteq Forever' /\ Yes \subseteq Yes' /\ setup' = setup
      /\ \A d \in Children : LeaveOf[d] \subseteq LeaveOf'[d]
  BY LeavesStay DEF IInv, Grows
<1>2. ASSUME NEW d \in Children
      PROVE  /\ reply'[d] # "none" => place'[d] \in {"answered", "entry"}
             /\ reply'[d] \notin {"none", "deny"} => Len(issued'[d]) \in LeaveOf'[d]
             /\ reply'[d] \in ForGood => Last(issued'[d]).pattern \in Forever'
  BY <1>1 DEF IInv, ReplyInv, Pattern, Command
<1>3. ASSUME NEW l \in Launches
      PROVE  /\ launch'[l] = "idle" => reply'[l] = "none"
             /\ reply'[l] \notin {"none", "deny"} => l \in Yes'
             /\ launch'[l] = "launched" /\ setup'.gated => l \in Yes'
  BY <1>1 DEF IInv, ReplyInv
<1> QED  BY <1>2, <1>3 DEF ReplyInv, Pattern, Command

LEMMA AnswerKeepsReplies ==
  ASSUME IInv, Grows, NEW c \in Children, NEW choice \in Answers, Answered(c, choice),
         UNCHANGED <<issued, launch>>, place[c] \notin {"busy", "left"},
         choice # "deny" => Len(issued[c]) \in LeaveOf'[c],
         choice \in ForGood => Pattern(c) \in Forever'
  PROVE  ReplyInv'
<1>1. reply' = [reply EXCEPT ![c] = choice] /\ place' = [place EXCEPT ![c] = "answered"]
  BY DEF Answered
<1>2. DOMAIN reply = Askers /\ DOMAIN place = Children
  BY DEF IInv, TypeOK
<1> QED  BY <1>1, <1>2, RepliesStayUnless DEF Pattern, Command

LEMMA CallbackKeepsReplies ==
  ASSUME IInv, Grows, NEW c \in Children, Callback(c)
  PROVE  ReplyInv'
<1> DEFINE n == Len(issued[c])
<1>0. TypeOK /\ place[c] \notin {"busy", "left"} /\ UNCHANGED <<setup, issued, launch>>
  BY DEF IInv, Callback, CallbackDecides, FastPath, QueuePrompt, ReuseGrant, AskUser, PromptFails,
         UserAnswers, AtCallback
<1>1. LeaveOf[c] \subseteq LeaveOf'[c]
  BY <1>0, LeavesStay
<1>2. (\E s \in said' : s.asker = c /\ s.number = n /\ s.choice # "deny") => n \in LeaveOf'[c]
  <2>1. n \in DOMAIN issued[c]
    BY <1>0, LastCommand
  <2> SUFFICES ASSUME \E s \in said' : s.asker = c /\ s.number = n /\ s.choice # "deny"
               PROVE  n \in LeaveOf'[c]
    OBVIOUS
  <2>2. SaidYes(c, n)'
    BY <1>0 DEF SaidYes
  <2>3. Allowed(c, n)'
    BY <2>2 DEF Allowed
  <2> QED  BY <1>0, <2>1, <2>3 DEF LeaveOf
<1>3. CASE CallbackDecides(c)
  <2>1. PICK yes \in Verdicts[Unattended] :
          /\ Answered(c, IF yes THEN "once" ELSE "deny")
          /\ said' = IF yes THEN said \cup Guardian(c) ELSE said
    BY <1>3 DEF CallbackDecides
  <2>2. ASSUME yes PROVE n \in LeaveOf'[c]
    <3>1. CASE Unattended = "approve"
      BY <1>0, <1>1, <1>3, <3>1, GoodForThis DEF CallbackDecides, Approves
    <3>2. CASE Unattended = "smart"
      <4>1. Said(c, "smart") \in said'
        BY <2>1, <2>2, <3>2 DEF Guardian
      <4> QED  BY <1>2, <4>1, WhatIsSaid
    <3>3. CASE Unattended = "deny"
      BY <2>2, <3>3 DEF Verdicts
    <3> QED  BY <1>0, <3>1, <3>2, <3>3, PolicyTypes
  <2> QED  BY <1>0, <2>1, <2>2, AnswerKeepsReplies
<1>4. CASE FastPath(c)
  <2>1. n \in LeaveOf[c]
    BY <1>0, <1>4, GoodForThis DEF FastPath
  <2> QED  BY <1>0, <1>1, <1>4, <2>1, AnswerKeepsReplies DEF FastPath
<1>5. CASE QueuePrompt(c) \/ AskUser(c)
  <2>1. \E p : place' = [place EXCEPT ![c] = p]
    BY <1>5 DEF QueuePrompt, AskUser
  <2>2. reply' = reply /\ reply[c] = "none"
    BY <1>5 DEF IInv, ReplyInv, QueuePrompt, AskUser, AtCallback
  <2> QED  BY <1>0, <2>1, <2>2, RepliesStayUnless DEF TypeOK
<1>6. CASE ReuseGrant(c)
  <2>1. n \in LeaveOf[c]
    BY <1>0, <1>6, GoodForThis DEF ReuseGrant, IInv, GrantInv, Passed
  <2> QED  BY <1>0, <1>1, <1>6, <2>1, AnswerKeepsReplies DEF ReuseGrant
<1>7. CASE PromptFails(c)
  BY <1>0, <1>7, AnswerKeepsReplies DEF PromptFails
<1>8. ASSUME NEW choice \in Answers, UserAnswers(c, choice)
      PROVE  ReplyInv'
  <2>1. Answered(c, choice) /\ Said(c, choice) \in said'
    BY <1>8 DEF UserAnswers
  <2>2. choice # "deny" => n \in LeaveOf'[c]
    BY <1>2, <2>1, WhatIsSaid
  <2>3. choice \in ForGood => Pattern(c) \in Forever'
    BY <2>1, WhatIsSaid
  <2> QED  BY <1>0, <2>1, <2>2, <2>3, AnswerKeepsReplies
<1> QED  BY <1>3, <1>4, <1>5, <1>6, <1>7, <1>8 DEF Callback

LEMMA SilenceKeepsReplies ==
  ASSUME IInv, Grows, NEW c \in Children,
         (\E cmd \in Commands : Issue(c, cmd)) \/ Leave(c) \/ Gate(c) \/ Host(c)
  PROVE  ReplyInv'
<1>1. /\ launch' = launch
      /\ \E p : place' = [place EXCEPT ![c] = p]
      /\ issued' = issued \/ \E s : issued' = [issued EXCEPT ![c] = s]
      /\ reply' = reply \/ reply' = [reply EXCEPT ![c] = "none"]
  BY DEF Issue, Leave, Gate, GateDefers, GateAllows, GateBlocks, Host, HostRuns, HostPends,
         HostQueues, EntryExpires, HostHears, Run
<1>2. reply'[c] = "none"
  <2>0. HostHears(c) \/ reply' = reply
    BY DEF Issue, Leave, Gate, GateDefers, GateAllows, GateBlocks, Host, HostRuns, HostPends,
           HostQueues, EntryExpires
  <2>1. HostHears(c) \/ reply[c] = "none"
    BY DEF IInv, ReplyInv, Issue, Leave, Gate, GateDefers, GateAllows, GateBlocks, Host, HostRuns,
           HostPends, HostQueues, EntryExpires
  <2> QED  BY <2>0, <2>1 DEF HostHears, IInv, TypeOK
<1>3. /\ \A d \in Children \ {c} : /\ reply'[d] = reply[d] /\ place'[d] = place[d]
                                    /\ issued'[d] = issued[d]
      /\ \A l \in Launches : reply'[l] = reply[l]
  BY <1>1 DEF IInv, TypeOK
<1> QED  BY <1>1, <1>2, <1>3, RepliesStayUnless

LEMMA LaunchKeepsReplies ==
  ASSUME IInv, Grows, NEW l \in Launches, Launch(l)
  PROVE  ReplyInv'
<1>1. UNCHANGED <<setup, issued, place, reply>> /\ \E s : launch' = [launch EXCEPT ![l] = s]
  BY DEF Launch, LaunchUnasked, LaunchAppends, LaunchNotifies, LaunchNotNotified, LaunchRaises,
         LaunchHears, LaunchTimesOut, LaunchGivesUp, LaunchConfirmed, Decide
<1>2. /\ Forever \subseteq Forever' /\ Yes \subseteq Yes' /\ DOMAIN launch = Launches
      /\ \A d \in Children : LeaveOf[d] \subseteq LeaveOf'[d]
  BY LeavesStay DEF IInv, TypeOK
<1>3. launch'[l] # "idle"
  BY <1>2 DEF Launch, LaunchUnasked, LaunchAppends, LaunchNotifies, LaunchNotNotified, LaunchRaises,
              LaunchHears, LaunchTimesOut, LaunchGivesUp, LaunchConfirmed, Decide
<1>4. launch'[l] = "launched" /\ setup.gated => l \in Yes'
  <2>1. CASE LaunchHears(l)
    BY <1>2, <2>1 DEF IInv, ReplyInv, LaunchHears, Decide
  <2>2. ASSUME NEW choice \in Answers, LaunchConfirmed(l, choice)
        PROVE  choice # "deny" => l \in Yes'
    <3>1. Said(l, choice) \in said'
      BY <2>2 DEF LaunchConfirmed
    <3> QED  BY <3>1, WhatIsSaid
  <2> QED  BY <1>2, <2>1, <2>2 DEF Launch, LaunchUnasked, LaunchAppends, LaunchNotifies,
              LaunchNotNotified, LaunchRaises, LaunchTimesOut, LaunchGivesUp, LaunchConfirmed,
              Decide
<1> QED  BY <1>1, <1>2, <1>3, <1>4 DEF IInv, ReplyInv, Pattern, Command

LEMMA TapKeepsReplies ==
  ASSUME IInv, Grows, NEW choice \in Answers, Tap(choice)
  PROVE  ReplyInv'
<1>0. PICK a : a = Head(queue)
  OBVIOUS
<1>1. a \in Entries /\ a \in Askers
  <2>1. queue \in Seq(Askers) /\ queue # <<>> /\ queue' = Tail(queue)
    BY DEF IInv, TypeOK, Tap
  <2> QED  BY <1>0, <2>1, Popped DEF IInv, QueueInv
<1>2. /\ reply' = [reply EXCEPT ![a] = choice] /\ said' = said \cup {Said(a, choice)}
      /\ UNCHANGED <<setup, issued, place, launch>> /\ DOMAIN reply = Askers
  BY <1>0 DEF IInv, TypeOK, Tap
<1>3. CASE a \in Children
  <2>1. place[a] = "entry" /\ TypeOK
    BY <1>1, <1>3 DEF IInv, QueueInv
  <2>2. choice # "deny" => Len(issued[a]) \in LeaveOf'[a]
    <3>1. Len(issued[a]) \in DOMAIN issued[a]
      BY <1>3, <2>1, LastCommand
    <3>2. choice # "deny" => SaidYes(a, Len(issued[a]))'
      <4>1. choice # "deny" =>
              \E s \in said' : s.asker = a /\ s.number = Len(issued[a]) /\ s.choice # "deny"
        BY <1>1, <1>2, <1>3, WhatIsSaid
      <4> QED  BY <1>2, <4>1 DEF SaidYes
    <3>3. choice # "deny" => Allowed(a, Len(issued[a]))'
      BY <3>2 DEF Allowed
    <3> QED  BY <1>2, <1>3, <3>1, <3>3 DEF LeaveOf
  <2>3. choice \in ForGood => Pattern(a) \in Forever'
    BY <1>2, <1>3, WhatIsSaid
  <2> QED  BY <1>2, <1>3, <2>1, <2>2, <2>3, RepliesStayUnless DEF Pattern, Command
<1>4. CASE a \in Launches
  <2>1. launch[a] # "idle" /\ a \notin Children
    BY <1>1, <1>4 DEF IInv, QueueInv, MayHaveEntry, InTurn
  <2>2. choice # "deny" => a \in Yes'
    BY <1>1, <1>2, WhatIsSaid
  <2>3. /\ Forever \subseteq Forever' /\ Yes \subseteq Yes'
        /\ \A d \in Children : LeaveOf[d] \subseteq LeaveOf'[d]
    BY LeavesStay DEF IInv
  <2> QED  BY <1>2, <1>4, <2>1, <2>2, <2>3 DEF IInv, ReplyInv, Pattern, Command
<1> QED  BY <1>1, <1>3, <1>4

LEMMA NextKeepsReplies ==
  ASSUME IInv, Next
  PROVE  ReplyInv'
<1>1. Grows
  BY NextGrows DEF IInv
<1>2. ASSUME UNCHANGED <<place, reply, launch, issued>>
      PROVE  ReplyInv'
  <2>1. /\ Forever \subseteq Forever' /\ Yes \subseteq Yes' /\ setup' = setup
        /\ \A d \in Children : LeaveOf[d] \subseteq LeaveOf'[d]
    BY <1>1, LeavesStay DEF IInv, Grows
  <2> QED  BY <1>2, <2>1 DEF IInv, ReplyInv, Pattern, Command
<1>3. ASSUME NEW c \in Children, Interrupt(c) \/ TimeOut(c) \/ Abandon(c)
      PROVE  ReplyInv'
  BY <1>2, <1>3 DEF Interrupt, TimeOut, Abandon
<1>4. TurnChanges => ReplyInv'
  BY <1>2 DEF TurnChanges
<1> QED  BY <1>1, <1>3, <1>4, CallbackKeepsReplies, SilenceKeepsReplies, LaunchKeepsReplies,
            TapKeepsReplies DEF Next, Child

-----------------------------------------------------------------------------
(* What is approved, and why. *)
LEMMA SetupStays ==
  ASSUME setup' = setup
  PROVE  /\ OnCommandLine' = OnCommandLine /\ Interactive' = Interactive
         /\ Unattended' = Unattended /\ ChildSurface' = ChildSurface
  BY DEF OnCommandLine, Interactive, Captured, Policy, Unattended, ChildSurface

LEMMA GrantsStay ==
  ASSUME IInv, Grows, UNCHANGED <<granted, allowlist, session>>,
         Interactive => Forever' \cap Patterns \subseteq Forever,
         \A c \in Children :
           /\ place'[c] = "host" /\ ChildSurface = "headless" =>
                \/ place[c] = "host" /\ issued'[c] = issued[c]
                \/ Last(issued'[c]).pattern \in allowlist
           /\ place'[c] \in {"queued", "asking"} =>
                place[c] \in {"queued", "asking"} \/ Interactive
  PROVE  GrantInv'
<1>1. /\ Forever \subseteq Forever' /\ Passed \subseteq Passed' /\ Approves' = Approves
      /\ setup' = setup /\ Interactive' = Interactive /\ ChildSurface' = ChildSurface
  BY LeavesStay, SetupStays DEF IInv, Grows
<1>2. granted' \subseteq Forever' /\ allowlist' \subseteq setup'.allowlist \cup Forever'
  BY <1>1 DEF IInv, GrantInv
<1>3. Approves' \/ session' \subseteq Passed'
  BY <1>1 DEF IInv, GrantInv
<1>4. Interactive' => Forever' \cap Patterns \subseteq granted'
  BY <1>1 DEF IInv, GrantInv
<1>5. ASSUME NEW c \in Children
      PROVE  /\ place'[c] = "host" /\ ChildSurface' = "headless" =>
                  Last(issued'[c]).pattern \in allowlist' \cup session'
             /\ place'[c] \in {"queued", "asking"} => Interactive'
  BY <1>1 DEF IInv, GrantInv, Pattern, Command
<1> QED  BY <1>2, <1>3, <1>4, <1>5 DEF GrantInv, Pattern, Command

LEMMA ForeverBySaying ==
  ASSUME NEW a, NEW choice, said' = said \cup {Said(a, choice)}
  PROVE  \A p \in Forever' : p \in Forever \/ (choice \in ForGood /\ p = Said(a, choice).pattern)
<1>1. Said(a, choice).choice = choice
  BY DEF Said
<1> QED  BY <1>1 DEF Forever

LEMMA NextKeepsGrants ==
  ASSUME IInv, Next
  PROVE  GrantInv'
<1>1. TypeOK /\ Grows
  BY NextGrows DEF IInv
<1>2. /\ DOMAIN place = Children /\ DOMAIN issued = Children
      /\ Forever \subseteq Forever' /\ Passed \subseteq Passed' /\ Approves' = Approves
      /\ setup' = setup /\ Interactive' = Interactive /\ ChildSurface' = ChildSurface
      /\ Smart \subseteq Smart' /\ Read \subseteq Read' /\ OnCommandLine' = OnCommandLine
  BY <1>1, LeavesStay, SetupStays DEF Grows, TypeOK
<1>3. said' = said => Forever' = Forever
  BY DEF Forever
<1>4. ASSUME NEW c \in Children,
             \/ \E cmd \in Commands : Issue(c, cmd)
             \/ Leave(c) \/ Interrupt(c) \/ TimeOut(c) \/ Abandon(c)
             \/ GateBlocks(c) \/ HostPends(c) \/ HostQueues(c) \/ HostRuns(c) \/ EntryExpires(c)
      PROVE  GrantInv'
  <2>1. UNCHANGED <<granted, allowlist, session, said>>
    BY <1>4 DEF Issue, Leave, Interrupt, TimeOut, Abandon, GateBlocks, HostPends, HostQueues,
                HostRuns, EntryExpires
  <2>2. \/ place' = place /\ issued' = issued
        \/ \E p \in {"hook", "left", "busy", "entry"} :
             /\ place' = [place EXCEPT ![c] = p]
             /\ issued' = issued \/ \E t : issued' = [issued EXCEPT ![c] = t]
    BY <1>4 DEF Issue, Leave, Interrupt, TimeOut, Abandon, GateBlocks, HostPends, HostQueues,
                HostRuns, Run, EntryExpires
  <2>3. \A d \in Children : place'[d] \notin {"hook", "left", "busy", "entry"} =>
          place'[d] = place[d] /\ issued'[d] = issued[d]
    BY <1>2, <2>2
  <2> QED  BY <1>1, <1>3, <2>1, <2>3, GrantsStay
<1>5. ASSUME NEW c \in Children, GateDefers(c)
      PROVE  GrantInv'
  <2>1. UNCHANGED <<granted, allowlist, session, said, issued>>
        /\ place' = [place EXCEPT ![c] = "host"]
    BY <1>5 DEF GateDefers
  <2>2. ChildSurface = "headless" => Pattern(c) \in allowlist
    BY <1>1, <1>5 DEF GateDefers, Gated, HasGatewayChannel, ChildSurface, OnCommandLine
  <2>3. \A d \in Children : place'[d] = IF d = c THEN "host" ELSE place[d]
    BY <1>2, <2>1
  <2> QED  BY <1>1, <1>3, <2>1, <2>2, <2>3, GrantsStay DEF Pattern, Command
<1>6. ASSUME NEW c \in Children, GateAllows(c)
      PROVE  GrantInv'
  <2>1. /\ place[c] = "hook" /\ ~OnCommandLine /\ ~Interactive
        /\ UNCHANGED <<granted, allowlist, issued>>
        /\ place' = [place EXCEPT ![c] = "host"] /\ session' = session \cup {Pattern(c)}
    BY <1>1, <1>6, PolicyTypes DEF GateAllows, Gated, OnAllow
  <2>2. Approves' \/ Pattern(c) \in Passed'
    <3>1. CASE ReadOnly(c)
      <4>1. PICK w : w = Said(c, "reading")
        OBVIOUS
      <4>2. w \in said' /\ w.choice = "reading" /\ w.pattern = Pattern(c)
        BY <1>6, <3>1, <4>1 DEF GateAllows, Said
      <4>3. Pattern(c) \in Patterns
        BY <1>1, <2>1, LastCommand
      <4>4. Pattern(c) \in Read'
        BY <4>2, <4>3 DEF Read, PassedByReading
      <4> QED  BY <4>4 DEF Passed
    <3>2. CASE ~ReadOnly(c) /\ Unattended = "smart"
      <4>1. PICK w : w = Said(c, "smart")
        OBVIOUS
      <4>2. w \in said' /\ w.choice = "smart" /\ w.pattern = Pattern(c)
        BY <1>6, <3>2, <4>1 DEF GateAllows, Guardian, Said
      <4>3. Pattern(c) \in Smart'
        BY <4>2 DEF Smart
      <4> QED  BY <1>2, <2>1, <4>3 DEF Passed
    <3>3. CASE ~ReadOnly(c) /\ Unattended = "approve"
      BY <1>2, <2>1, <3>3 DEF Approves
    <3>4. CASE ~ReadOnly(c) /\ Unattended = "deny"
      BY <1>6, <3>4 DEF GateAllows, Verdicts
    <3> QED  BY <1>1, <3>1, <3>2, <3>3, <3>4, PolicyTypes
  <2>3. granted' \subseteq Forever' /\ allowlist' \subseteq setup'.allowlist \cup Forever'
    BY <1>2, <2>1 DEF IInv, GrantInv
  <2>4. Approves' \/ session' \subseteq Passed'
    BY <1>2, <2>1, <2>2 DEF IInv, GrantInv
  <2>5. ASSUME NEW d \in Children
        PROVE  /\ place'[d] = "host" /\ ChildSurface' = "headless" =>
                    Last(issued'[d]).pattern \in allowlist' \cup session'
               /\ place'[d] \in {"queued", "asking"} => Interactive'
    BY <1>2, <2>1 DEF IInv, GrantInv, Pattern, Command
  <2> QED  BY <1>2, <2>1, <2>3, <2>4, <2>5 DEF GrantInv, Pattern, Command
<1>7. ASSUME NEW c \in Children, HostHears(c)
      PROVE  GrantInv'
  <2>1. /\ UNCHANGED <<granted, said, issued>>
        /\ place' = [place EXCEPT ![c] = "busy"]
        /\ session' = IF reply[c] \in ForGood THEN session \cup {Pattern(c)} ELSE session
        /\ allowlist' = IF reply[c] = "always" THEN allowlist \cup {Pattern(c)} ELSE allowlist
    BY <1>7 DEF HostHears, Run
  <2>2. reply[c] \in ForGood => Pattern(c) \in Forever
    BY DEF IInv, ReplyInv
  <2>3. granted' \subseteq Forever' /\ allowlist' \subseteq setup'.allowlist \cup Forever'
    BY <1>2, <2>1, <2>2 DEF IInv, GrantInv
  <2>4. Approves' \/ session' \subseteq Passed'
    BY <1>2, <2>1, <2>2 DEF IInv, GrantInv, Passed
  <2>5. Interactive' => Forever' \cap Patterns \subseteq granted'
    BY <1>2, <1>3, <2>1 DEF IInv, GrantInv
  <2>6. ASSUME NEW d \in Children
        PROVE  /\ place'[d] = "host" /\ ChildSurface' = "headless" =>
                    Last(issued'[d]).pattern \in allowlist' \cup session'
               /\ place'[d] \in {"queued", "asking"} => Interactive'
    BY <1>2, <2>1 DEF IInv, GrantInv, Pattern, Command
  <2> QED  BY <2>3, <2>4, <2>5, <2>6 DEF GrantInv, Pattern, Command
<1>8. ASSUME NEW c \in Children,
             CallbackDecides(c) \/ FastPath(c) \/ QueuePrompt(c) \/ ReuseGrant(c) \/ AskUser(c)
             \/ PromptFails(c)
      PROVE  GrantInv'
  <2>1. /\ UNCHANGED <<granted, allowlist, session, issued>>
        /\ Interactive => said' = said
        /\ \E p \in {"answered", "queued", "asking"} :
             /\ place' = [place EXCEPT ![c] = p]
             /\ p = "answered" \/ Interactive \/ place[c] = "queued"
    BY <1>8 DEF CallbackDecides, FastPath, QueuePrompt, ReuseGrant, AskUser, PromptFails, Answered
  <2>2. \A d \in Children :
          /\ place'[d] = "host" => place[d] = "host"
          /\ place'[d] \in {"queued", "asking"} =>
               place[d] \in {"queued", "asking"} \/ Interactive
    BY <1>2, <2>1
  <2> QED  BY <1>1, <1>3, <2>1, <2>2, GrantsStay
<1>9. ASSUME NEW c \in Children, NEW choice \in Answers, UserAnswers(c, choice)
      PROVE  GrantInv'
  <2>1. /\ UNCHANGED <<allowlist, session, issued>> /\ said' = said \cup {Said(c, choice)}
        /\ place' = [place EXCEPT ![c] = "answered"] /\ place[c] = "asking"
        /\ granted' = IF choice \in ForGood THEN granted \cup {Pattern(c)} ELSE granted
        /\ Said(c, choice).pattern = Pattern(c)
    BY <1>9 DEF UserAnswers, Answered, Said
  <2>2. choice \in ForGood => Pattern(c) \in Forever'
    BY <2>1, WhatIsSaid
  <2>3. granted' \subseteq Forever' /\ allowlist' \subseteq setup'.allowlist \cup Forever'
    BY <1>2, <2>1, <2>2 DEF IInv, GrantInv
  <2>4. Approves' \/ session' \subseteq Passed'
    BY <1>2, <2>1 DEF IInv, GrantInv
  <2>5. Interactive' => Forever' \cap Patterns \subseteq granted'
    BY <1>2, <2>1, ForeverBySaying DEF IInv, GrantInv
  <2>6. ASSUME NEW d \in Children
        PROVE  /\ place'[d] = "host" /\ ChildSurface' = "headless" =>
                    Last(issued'[d]).pattern \in allowlist' \cup session'
               /\ place'[d] \in {"queued", "asking"} => Interactive'
    BY <1>2, <2>1 DEF IInv, GrantInv, Pattern, Command
  <2> QED  BY <2>3, <2>4, <2>5, <2>6 DEF GrantInv, Pattern, Command
<1>10. ASSUME NEW l \in Launches, NEW choice \in Answers, LaunchConfirmed(l, choice)
       PROVE  GrantInv'
  <2>1. /\ UNCHANGED <<granted, allowlist, session, issued, place>>
        /\ said' = said \cup {Said(l, choice)} /\ Said(l, choice).pattern = "workflow_launch"
    BY <1>10 DEF LaunchConfirmed, Said
  <2>2. Forever' \cap Patterns \subseteq Forever
    BY <2>1, ForeverBySaying
  <2> QED  BY <1>1, <2>1, <2>2, GrantsStay
<1>11. ASSUME NEW choice \in Answers, Tap(choice)
       PROVE  GrantInv'
  <2>1. UNCHANGED <<granted, allowlist, session, issued, place>> /\ queue # <<>>
    BY <1>11 DEF Tap
  <2>2. 1 \in DOMAIN queue
    BY <1>1, <2>1 DEF TypeOK
  <2>3. ~Interactive
    BY <1>1, <2>2, PolicyTypes DEF IInv, QueueInv, Entries
  <2> QED  BY <1>1, <2>1, <2>3, GrantsStay
<1>12. ASSUME TurnChanges \/ \E l \in Launches :
                LaunchUnasked(l) \/ LaunchAppends(l) \/ LaunchNotifies(l) \/ LaunchNotNotified(l)
                \/ LaunchRaises(l) \/ LaunchHears(l) \/ LaunchTimesOut(l) \/ LaunchGivesUp(l)
       PROVE  GrantInv'
  <2>1. UNCHANGED <<granted, allowlist, session, issued, place, said>>
    BY <1>12 DEF TurnChanges, LaunchUnasked, LaunchAppends, LaunchNotifies, LaunchNotNotified,
                 LaunchRaises,
                 LaunchHears, LaunchTimesOut, LaunchGivesUp
  <2> QED  BY <1>1, <1>3, <2>1, GrantsStay
<1> QED  BY <1>4, <1>5, <1>6, <1>7, <1>8, <1>9, <1>10, <1>11, <1>12
         DEF Next, Child, Gate, Host, Callback, Launch

-----------------------------------------------------------------------------
(* What ran had a leave. *)
LEMMA NextKeepsRuns ==
  ASSUME IInv, Next
  PROVE  RunsInv'
<1>1. TypeOK /\ Grows
  BY NextGrows DEF IInv
<1>2. \A d \in Children : LeaveOf[d] \subseteq LeaveOf'[d]
  BY <1>1, LeavesStay
<1>3. ran' = ran => RunsInv'
  BY <1>2 DEF IInv, RunsInv
<1>4. ASSUME NEW c \in Children, HostRuns(c) \/ HostHears(c)
      PROVE  RunsInv'
  <2>1. ran' = ran \/ (/\ ran' = [ran EXCEPT ![c] = @ \cup {Len(issued[c])}]
                       /\ HostRuns(c) \/ reply[c] \notin {"none", "deny"})
    BY <1>4 DEF HostRuns, HostHears, Run
  <2>2. HostRuns(c) => Len(issued[c]) \in LeaveOf[c]
    <3>1. HostRuns(c) => Pattern(c) \in allowlist \cup session /\ place[c] = "host"
      BY DEF HostRuns, Approved, IInv, GrantInv
    <3>2. Pattern(c) \in allowlist \cup session => Approves \/ Pattern(c) \in setup.allowlist \cup Passed
      BY DEF IInv, GrantInv, Passed
    <3> QED  BY <1>1, <3>1, <3>2, GoodForThis
  <2>3. reply[c] \notin {"none", "deny"} => Len(issued[c]) \in LeaveOf[c]
    BY DEF IInv, ReplyInv
  <2>4. CASE ran' = [ran EXCEPT ![c] = @ \cup {Len(issued[c])}] /\ Len(issued[c]) \in LeaveOf[c]
    <3>1. DOMAIN ran = Children
      BY <1>1 DEF TypeOK
    <3>2. \A d \in Children : ran[d] \subseteq LeaveOf[d]
      BY DEF IInv, RunsInv
    <3> QED  BY <1>2, <2>4, <3>1, <3>2 DEF RunsInv
  <2> QED  BY <1>3, <2>1, <2>2, <2>3, <2>4
<1>5. ASSUME NEW c \in Children, Child(c) \/ Gate(c) \/ HostPends(c) \/ HostQueues(c)
             \/ EntryExpires(c)
      PROVE  ran' = ran
  BY <1>5 DEF Child, Issue, Leave, Interrupt, TimeOut, Abandon, Gate, GateDefers, GateAllows,
              GateBlocks, HostPends, HostQueues, EntryExpires
<1>6. ASSUME NEW c \in Children, Callback(c)
      PROVE  ran' = ran
  BY <1>6 DEF Callback, CallbackDecides, FastPath, QueuePrompt, ReuseGrant, AskUser, PromptFails,
              UserAnswers
<1>7. ASSUME NEW l \in Launches, Launch(l)
      PROVE  ran' = ran
  BY <1>7 DEF Launch, LaunchUnasked, LaunchAppends, LaunchNotifies, LaunchNotNotified, LaunchRaises,
              LaunchHears, LaunchTimesOut, LaunchGivesUp, LaunchConfirmed
<1>8. (\E choice \in Answers : Tap(choice)) \/ TurnChanges => ran' = ran
  BY DEF Tap, TurnChanges
<1> QED  BY <1>3, <1>4, <1>5, <1>6, <1>7, <1>8 DEF Next, Host

-----------------------------------------------------------------------------
LEMMA InitHolds == Init => IInv
<1> SUFFICES ASSUME Init PROVE IInv
  OBVIOUS
<1>1. TypeOK
  <2>1. setup.allowlist \subseteq Patterns /\ setup \in Setups
    BY DEF Init
  <2>2. /\ issued = [c \in Children |-> <<>>] /\ issued \in [Children -> Seq(Commands)]
        /\ \A c \in Children : Len(issued[c]) = 0
    BY DEF Init
  <2>3. queue \in Seq(Askers)
    BY DEF Init
  <2>4. observed \in [Children -> Nat] /\ \A c \in Children : observed[c] = 0
    BY DEF Init
  <2>5. /\ place \in [Children -> Places] /\ \A c \in Children : place[c] = "busy" /\ holder # c
        /\ reply \in [Askers -> Answers \cup {"none"}]
        /\ call \in [Children -> {"active", "grace", "over"}]
        /\ shown \in [Children -> Events] /\ launch \in [Launches -> Stages]
    BY DEF Init
  <2>6. ran \in [Children -> SUBSET Nat] /\ \A c \in Children : ran[c] \subseteq 1 .. Len(issued[c])
    BY DEF Init
  <2>7. /\ channel \in BOOLEAN /\ (channel => setup.surface = "gateway")
        /\ allowlist = setup.allowlist /\ session = {} /\ granted = {} /\ interrupted = {}
        /\ holder = Nobody
    BY DEF Init
  <2>8. \A c \in Children : /\ place[c] = "asking" <=> holder = c
                            /\ place[c] \in Places \ {"busy", "left"} => issued[c] # <<>>
                            /\ observed[c] <= Len(issued[c])
                            /\ Registered(c) => observed[c] = Len(issued[c])
    BY <2>2, <2>4, <2>5
  <2> QED  BY <2>1, <2>2, <2>3, <2>4, <2>5, <2>6, <2>7, <2>8 DEF TypeOK
<1>2. QueueInv
  BY DEF Init, QueueInv, Distinct, Entries
<1>3. ReplyInv
  BY DEF Init, ReplyInv
<1>4. GrantInv
  BY DEF Init, GrantInv, Passed, Forever
<1>5. RunsInv
  BY DEF Init, RunsInv
<1> QED  BY <1>1, <1>2, <1>3, <1>4, <1>5 DEF IInv

\* The invariant is inductive: who has an entry or an answer waits for it, and every
\* approval the host or the coordinator keeps goes back to an answer, the policy or a
\* command that only reads (runner.py:84-115; hooks.py:285-351; manager.py:1001-1055).
THEOREM Inductive == Spec => []IInv
<1>1. IInv /\ [Next]_vars => IInv'
  <2>1. ASSUME IInv, Next PROVE IInv'
    BY <2>1, NextKeepsType, NextKeepsQueue, NextKeepsReplies, NextKeepsGrants, NextKeepsRuns DEF IInv
  <2>2. ASSUME IInv, UNCHANGED vars PROVE IInv'
    <3>0. UNCHANGED <<setup, channel, allowlist, session, granted, holder, issued, place, reply,
                      call, interrupted, observed, shown, queue, launch, ran, said>>
      BY <2>2 DEF vars
    <3>1. /\ Forever' = Forever /\ Smart' = Smart /\ Yes' = Yes /\ Entries' = Entries
          /\ Distinct' = Distinct /\ OnCommandLine' = OnCommandLine
          /\ Interactive' = Interactive /\ Unattended' = Unattended /\ ChildSurface' = ChildSurface
      BY <3>0, SetupStays DEF Forever, Smart, Yes, Entries, Distinct
    <3>2. Read' = Read /\ \A p \in Patterns : PassedByReading(p)' = PassedByReading(p)
      BY <3>0, <3>1 DEF Read, PassedByReading
    <3>3. Grows
      BY <2>2, <3>0 DEF Grows, IInv, TypeOK
    <3>4. \A c \in Children : LeaveOf[c] \subseteq LeaveOf'[c]
      BY <2>2, <3>3, LeavesStay DEF IInv
    <3>5. TypeOK'
      BY <2>2, <3>0 DEF IInv, TypeOK, Registered
    <3>6. QueueInv'
      BY <2>2, <3>0, <3>1 DEF IInv, QueueInv, MayHaveEntry, InTurn
    <3>7. ReplyInv'
      BY <2>2, <3>0, <3>1, <3>4 DEF IInv, ReplyInv, Pattern, Command
    <3>8. GrantInv'
      BY <2>2, <3>0, <3>1, <3>2 DEF IInv, GrantInv, Passed, Approves, Pattern, Command
    <3>9. RunsInv'
      BY <2>2, <3>0, <3>4 DEF IInv, RunsInv
    <3> QED  BY <3>5, <3>6, <3>7, <3>8, <3>9 DEF IInv
  <2> QED  BY <2>1, <2>2
<1> QED  BY <1>1, InitHolds, PTL DEF Spec

\* The type of the state, with the lock of the coordinator and the shown tool calls
\* (runner.py:84-115; hooks.py:90-104).
THEOREM TypeCorrect == Spec => []TypeOK
<1>1. IInv => TypeOK
  BY DEF IInv
<1> QED  BY <1>1, Inductive, PTL

\* A flagged command runs only with a leave: of the allowlist, of the policy, as one that
\* only reads, or by a yes to it or, for good, to its pattern; a yes for one time to one
\* child is good for nothing else.  The one exception is named: off the command line, what
\* the hook lets through because it only reads passes its pattern for the session
\* (runner.py:84-115, 1082-1169; hooks.py:285-351).
THEOREM RunsWereAllowed == Spec => []FlaggedRunsWereAllowed
<1>1. IInv => FlaggedRunsWereAllowed
  BY DEF IInv, RunsInv, LeaveOf, FlaggedRunsWereAllowed
<1> QED  BY <1>1, Inductive, PTL

\* A tap is heard by somebody who waits, unless an exception took a launch out of its
\* wait, and a gated launch had a yes of its own (manager.py:988-1055).
THEOREM TapsAreHeard == Spec => []TapsReachWaiters
<1>1. IInv => TapsReachWaiters
  <2> SUFFICES ASSUME IInv PROVE TapsReachWaiters
    OBVIOUS
  <2>1. \A i \in DOMAIN queue : queue[i] \in Entries /\ queue[i] \in Askers
    BY DEF IInv, TypeOK, Entries
  <2>2. \A a \in Entries : reply[a] = "none" /\ (a \in Children => place[a] = "entry")
                           /\ (a \in Launches => MayHaveEntry(a))
    BY DEF IInv, QueueInv
  <2>3. \A l \in Yes : \E s \in said : s.asker = l /\ s.choice # "deny"
    BY DEF Yes
  <2>4. \A l \in Launches : launch[l] = "launched" /\ setup.gated => l \in Yes
    BY DEF IInv, ReplyInv
  <2>5. \A i, j \in DOMAIN queue : queue[i] = queue[j] => i = j
    BY DEF IInv, QueueInv, Distinct
  <2> QED  BY <2>1, <2>2, <2>3, <2>4, <2>5 DEF TapsReachWaiters
<1> QED  BY <1>1, Inductive, PTL

\* The user is asked one thing at a time, and nothing answered for good (runner.py:84-96).
THEOREM NobodyAsksTwice == Spec => AskedOnce
<1> DEFINE Step == \A c \in Children : place'[c] = "asking" /\ place[c] # "asking" =>
                     /\ \A d \in Children : place[d] # "asking"
                     /\ \A s \in said : s.pattern = Pattern(c) => s.choice \notin ForGood
<1>1. ASSUME IInv, Next PROVE Step
  <2> SUFFICES ASSUME NEW c \in Children, place'[c] = "asking", place[c] # "asking"
               PROVE  /\ \A d \in Children : place[d] # "asking"
                      /\ \A s \in said : s.pattern = Pattern(c) => s.choice \notin ForGood
    OBVIOUS
  <2>1. DOMAIN place = Children
    BY <1>1 DEF IInv, TypeOK
  <2>2. ASSUME NEW d \in Children, Child(d) \/ Gate(d) \/ Host(d)
        PROVE  FALSE
    BY <2>1, <2>2 DEF Child, Issue, Leave, Interrupt, TimeOut, Abandon, Gate, GateDefers,
       GateAllows, GateBlocks, Host, HostRuns, HostPends, HostQueues, EntryExpires, HostHears, Run
  <2>3. ASSUME NEW d \in Children, Callback(d), ~AskUser(d)
        PROVE  FALSE
    BY <2>1, <2>3 DEF Callback, CallbackDecides, FastPath, QueuePrompt, ReuseGrant, PromptFails,
       UserAnswers, Answered
  <2>4. ASSUME NEW l \in Launches, Launch(l)
        PROVE  FALSE
    BY <2>4 DEF Launch, LaunchUnasked, LaunchAppends, LaunchNotifies, LaunchNotNotified,
                LaunchRaises,
       LaunchHears, LaunchTimesOut, LaunchGivesUp, LaunchConfirmed
  <2>5. ~((\E choice \in Answers : Tap(choice)) \/ TurnChanges)
    BY DEF Tap, TurnChanges
  <2>6. AskUser(c)
    <3>1. PICK d \in Children : AskUser(d)
      BY <1>1, <2>2, <2>3, <2>4, <2>5 DEF Next
    <3> QED  BY <2>1, <3>1 DEF AskUser
  <2>7. \A d \in Children : place[d] # "asking"
    BY <1>1, <2>6 DEF AskUser, IInv, TypeOK
  <2>8. Interactive /\ Pattern(c) \in Patterns /\ Pattern(c) \notin granted
    BY <1>1, <2>6, LastCommand DEF AskUser, IInv, GrantInv
  <2>9. Pattern(c) \notin Forever
    BY <1>1, <2>8 DEF IInv, GrantInv
  <2> QED  BY <2>7, <2>9 DEF Forever
<1>2. UNCHANGED vars => Step
  BY DEF vars
<1>3. IInv /\ [Next]_vars => Step
  BY <1>1, <1>2
<1>4. IInv /\ [Next]_vars => [Step]_vars
  BY <1>3
<1> QED  BY <1>4, Inductive, PTL DEF Spec, AskedOnce

-----------------------------------------------------------------------------
(* ControlQueue.  Its invariants speak of answers that are written; the     *)
(* inductive invariant follows a request to its answer: one that is in      *)
(* reach of the listener and met no failure was carried out at most in the  *)
(* step before its answer.                                                  *)

Made(q) == request[q] # Nothing

(* Owners are processes that were; what was not asked was not handled; only *)
(* a busy listener has a request, and one that waits for a run a restart.   *)
RequestInv ==
  /\ \A r \in Runs : owner[r] <= process
  /\ \A q \in Requests :
       /\ Made(q) => request[q].owner <= process
       /\ ~Made(q) => /\ q \notin queued \cup botched /\ carried[q] = 0
                      /\ response[q] = Nothing
  /\ at \in {"asleep", "passing"} => now = Nothing
  /\ at \in {"waiting", "launching"} => request[now].action = "restart"

(* A request without a failure is carried out after the listener took it    *)
(* and answered before the listener leaves it.                              *)
Handled(q)  == q = now /\ at \in {"answering", "removing"}
Responded(q) == q = now /\ at = "removing"
FreshInv ==
  \A q \in Mine \ botched : /\ ~Handled(q) => carried[q] = 0
                            /\ ~Responded(q) => response[q] = Nothing

(* The answer that is about to be written. *)
AnswerInv ==
  at \in {"answering", "removing"} =>
    /\ answer = "ok" => carried[now] > 0
    /\ answer \in {"refused", "expired"} /\ now \notin botched => carried[now] = 0

(* A stop that was carried out leaves nothing to stop until the run begins, *)
(* and when it was carried out again, for good.                             *)
StopInv ==
  \A q \in Requests :
    Made(q) /\ request[q].action = "stop" =>
      LET r == request[q].run IN
      /\ carried[q] <= 2
      /\ carried[q] > 0 /\ r \notin begun => carried[q] = 1 /\ status[r] = "stopping"
      /\ carried[q] = 2 => r \in begun /\ status[r] \in {"stopping", "ended"}

ListenerInv == /\ QueueTypeOK /\ RequestInv /\ FreshInv /\ AnswerInv /\ StopInv
        /\ AnswersAreTrue /\ CarriedOutOnce

USE DEF Stoppable, Pausable, Held, Active, Terminal, Statuses, Become, Launched, Moved, Begins, Ends,
        Actions, Responses, ListenerPlaces, Busy, runVars, clientVars, fileVars, listenerVars,
        historyVars, queueVars, Fault, Managed, Mine, Goto, Asleep, NextRequest, Respond, CarryOut,
        Made, Handled, Responded
USE RequestsAssumption, NothingAssumption, BoundsAssumption

-----------------------------------------------------------------------------
LEMMA MinIsIn ==
  ASSUME NEW S \in SUBSET Nat, S # {}
  PROVE  Min(S) \in S
<1>1. PICK x \in S : \A y \in S : ~(<<y, x>> \in OpToRel(<, Nat))
  BY NatLessThanWellFounded, WFMin
<1>2. \A y \in S : x <= y
  <2> SUFFICES ASSUME NEW y \in S, y < x PROVE FALSE
    OBVIOUS
  <2>1. <<y, x>> \in {ss \in Nat \X Nat : ss[1] < ss[2]}
    OBVIOUS
  <2> QED  BY <1>1, <2>1, Zenon DEF OpToRel
<1> QED  BY <1>2 DEF Min

(* The request that a pass takes next. *)
LEMMA NextIsInBatch == QueueTypeOK /\ at = "passing" => Min(batch) \in batch
  BY MinIsIn DEF QueueTypeOK

LEMMA QueueStartsRight == QueueInit => ListenerInv
  BY DEF QueueInit, ListenerInv, QueueTypeOK, RequestInv, FreshInv, AnswerInv, StopInv, AnswersAreTrue,
         CarriedOutOnce

LEMMA StepsKeepListenerInv == ListenerInv /\ [QueueNext]_queueVars => ListenerInv'
<1> SUFFICES ASSUME ListenerInv, [QueueNext]_queueVars PROVE ListenerInv'
  OBVIOUS
<1> USE DEF ListenerInv
<1>1. CASE RunStep
  <2>1. QueueTypeOK'
    BY <1>1 DEF RunStep, LaunchRun, RunMoves, QueueTypeOK, RequestInv
  <2>2. RequestInv'
    BY <1>1 DEF RunStep, LaunchRun, RunMoves, QueueTypeOK, Asked, RequestInv
  <2>3. FreshInv'
    BY <1>1 DEF RunStep, LaunchRun, RunMoves, QueueTypeOK, RequestInv, FreshInv
  <2>4. AnswerInv'
    BY <1>1 DEF RunStep, LaunchRun, RunMoves, QueueTypeOK, RequestInv, FreshInv, AnswerInv
  <2>5. StopInv'
    BY <1>1 DEF RunStep, LaunchRun, RunMoves, QueueTypeOK, Asked, RequestInv, StopInv
  <2>6. AnswersAreTrue' /\ CarriedOutOnce'
    BY <1>1 DEF RunStep, LaunchRun, RunMoves, AnswersAreTrue, CarriedOutOnce
  <2> QED  BY <2>1, <2>2, <2>3, <2>4, <2>5, <2>6
<1>2. CASE Show
  <2>1. QueueTypeOK'
    BY <1>2 DEF Show, QueueTypeOK, RequestInv
  <2>2. RequestInv'
    BY <1>2 DEF Show, QueueTypeOK, Asked, RequestInv
  <2>3. FreshInv'
    BY <1>2 DEF Show, QueueTypeOK, RequestInv, FreshInv
  <2>4. AnswerInv'
    BY <1>2 DEF Show, QueueTypeOK, RequestInv, FreshInv, AnswerInv
  <2>5. StopInv'
    BY <1>2 DEF Show, QueueTypeOK, Asked, RequestInv, StopInv
  <2>6. AnswersAreTrue' /\ CarriedOutOnce'
    BY <1>2 DEF Show, AnswersAreTrue, CarriedOutOnce
  <2> QED  BY <2>1, <2>2, <2>3, <2>4, <2>5, <2>6
<1>3. ASSUME NEW q \in Requests, NEW r \in Runs, NEW action \in Actions, Submit(q, r, action)
      PROVE  ListenerInv'
  <2>1. QueueTypeOK'
    BY <1>3 DEF Submit, Offered, Asked, QueueTypeOK, RequestInv
  <2>2. RequestInv'
    BY <1>3 DEF Submit, Offered, QueueTypeOK, Asked, RequestInv
  <2>3. FreshInv'
    BY <1>3 DEF Submit, Offered, Asked, QueueTypeOK, RequestInv, FreshInv
  <2>4. AnswerInv'
    BY <1>3 DEF Submit, Offered, Asked, QueueTypeOK, RequestInv, FreshInv, AnswerInv
  <2>5. StopInv'
    BY <1>3 DEF Submit, Offered, QueueTypeOK, Asked, RequestInv, StopInv
  <2>6. AnswersAreTrue' /\ CarriedOutOnce'
    BY <1>3 DEF Submit, RequestInv, AnswersAreTrue, CarriedOutOnce
  <2> QED  BY <2>1, <2>2, <2>3, <2>4, <2>5, <2>6
<1>4. CASE Wake
  <2>1. QueueTypeOK'
    BY <1>4 DEF Wake, QueueTypeOK, RequestInv
  <2>2. RequestInv'
    BY <1>4 DEF Wake, QueueTypeOK, Asked, RequestInv
  <2>3. FreshInv'
    BY <1>4 DEF Wake, QueueTypeOK, RequestInv, FreshInv
  <2>4. AnswerInv'
    BY <1>4 DEF Wake, QueueTypeOK, RequestInv, FreshInv, AnswerInv
  <2>5. StopInv'
    BY <1>4 DEF Wake, QueueTypeOK, Asked, RequestInv, StopInv
  <2>6. AnswersAreTrue' /\ CarriedOutOnce'
    BY <1>4 DEF Wake, AnswersAreTrue, CarriedOutOnce
  <2> QED  BY <2>1, <2>2, <2>3, <2>4, <2>5, <2>6
<1>5. CASE Skip
  <2>1. QueueTypeOK'
    <3>1. batch' \subseteq batch /\ now' = Nothing /\ answer' = Nothing
      BY <1>5 DEF Skip, QueueTypeOK, RequestInv
    <3>2. \/ at' = "asleep" /\ batch' = {}
          \/ at' = "passing" /\ batch' # {}
      BY <1>5 DEF Skip
    <3>3. /\ faults' \in 0 .. MaxFaults
          /\ UNCHANGED <<process, runVars, clientVars, fileVars, expired, historyVars>>
      BY <1>5 DEF Skip, QueueTypeOK
    <3> QED  BY <3>1, <3>2, <3>3 DEF QueueTypeOK
  <2>2. RequestInv'
    BY <1>5, NextIsInBatch DEF Skip, QueueTypeOK, Asked, RequestInv
  <2>3. FreshInv'
    BY <1>5, NextIsInBatch DEF Skip, QueueTypeOK, RequestInv, FreshInv
  <2>4. AnswerInv'
    BY <1>5, NextIsInBatch DEF Skip, QueueTypeOK, RequestInv, FreshInv, AnswerInv
  <2>5. StopInv'
    BY <1>5, NextIsInBatch DEF Skip, QueueTypeOK, Asked, RequestInv, StopInv
  <2>6. AnswersAreTrue' /\ CarriedOutOnce'
    BY <1>5 DEF Skip, AnswersAreTrue, CarriedOutOnce
  <2> QED  BY <2>1, <2>2, <2>3, <2>4, <2>5, <2>6
<1>6. CASE Look
  <2>1. QueueTypeOK'
    BY <1>6, NextIsInBatch DEF Look, QueueTypeOK, RequestInv
  <2>2. RequestInv'
    BY <1>6, NextIsInBatch DEF Look, QueueTypeOK, Asked, RequestInv
  <2>3. FreshInv'
    BY <1>6, NextIsInBatch DEF Look, QueueTypeOK, RequestInv, FreshInv
  <2>4. AnswerInv'
    BY <1>6, NextIsInBatch DEF Look, QueueTypeOK, RequestInv, FreshInv, AnswerInv
  <2>5. StopInv'
    BY <1>6, NextIsInBatch DEF Look, QueueTypeOK, Asked, RequestInv, StopInv
  <2>6. AnswersAreTrue' /\ CarriedOutOnce'
    BY <1>6 DEF Look, AnswersAreTrue, CarriedOutOnce
  <2> QED  BY <2>1, <2>2, <2>3, <2>4, <2>5, <2>6
<1>7. CASE ActStop
  <2>1. QueueTypeOK'
    BY <1>7 DEF ActStop, ActOf, Change, QueueTypeOK, RequestInv
  <2>2. RequestInv'
    BY <1>7 DEF ActStop, ActOf, Change, QueueTypeOK, Asked, RequestInv
  <2>3. FreshInv'
    BY <1>7 DEF ActStop, ActOf, Change, QueueTypeOK, RequestInv, FreshInv
  <2>4. AnswerInv'
    BY <1>7 DEF ActStop, ActOf, Change, QueueTypeOK, RequestInv, FreshInv, AnswerInv
  <2>5. StopInv'
    BY <1>7 DEF ActStop, ActOf, Change, QueueTypeOK, Asked, RequestInv, StopInv
  <2>6. AnswersAreTrue' /\ CarriedOutOnce'
    BY <1>7 DEF ActStop, ActOf, Change,
               QueueTypeOK, RequestInv, FreshInv, StopInv, AnswersAreTrue, CarriedOutOnce
  <2> QED  BY <2>1, <2>2, <2>3, <2>4, <2>5, <2>6
<1>8. CASE ActPause
  <2>1. QueueTypeOK'
    BY <1>8 DEF ActPause, ActOf, Change, QueueTypeOK, RequestInv
  <2>2. RequestInv'
    BY <1>8 DEF ActPause, ActOf, Change, QueueTypeOK, Asked, RequestInv
  <2>3. FreshInv'
    BY <1>8 DEF ActPause, ActOf, Change, QueueTypeOK, RequestInv, FreshInv
  <2>4. AnswerInv'
    BY <1>8 DEF ActPause, ActOf, Change, QueueTypeOK, RequestInv, FreshInv, AnswerInv
  <2>5. StopInv'
    BY <1>8 DEF ActPause, ActOf, Change, QueueTypeOK, Asked, RequestInv, StopInv
  <2>6. AnswersAreTrue' /\ CarriedOutOnce'
    BY <1>8 DEF ActPause, ActOf, Change, QueueTypeOK, RequestInv, FreshInv,
               AnswersAreTrue, CarriedOutOnce
  <2> QED  BY <2>1, <2>2, <2>3, <2>4, <2>5, <2>6
<1>9. CASE ActResume
  <2>1. QueueTypeOK'
    BY <1>9 DEF ActResume, ActOf, Change, QueueTypeOK, RequestInv
  <2>2. RequestInv'
    BY <1>9 DEF ActResume, ActOf, Change, QueueTypeOK, Asked, RequestInv
  <2>3. FreshInv'
    BY <1>9 DEF ActResume, ActOf, Change, QueueTypeOK, RequestInv, FreshInv
  <2>4. AnswerInv'
    BY <1>9 DEF ActResume, ActOf, Change, QueueTypeOK, RequestInv, FreshInv, AnswerInv
  <2>5. StopInv'
    BY <1>9 DEF ActResume, ActOf, Change, QueueTypeOK, Asked, RequestInv, StopInv
  <2>6. AnswersAreTrue' /\ CarriedOutOnce'
    BY <1>9 DEF ActResume, ActOf, Change, QueueTypeOK, RequestInv, FreshInv,
               AnswersAreTrue, CarriedOutOnce
  <2> QED  BY <2>1, <2>2, <2>3, <2>4, <2>5, <2>6
<1>10. CASE RestartStops
  <2>1. QueueTypeOK'
    BY <1>10 DEF RestartStops, QueueTypeOK, RequestInv
  <2>2. RequestInv'
    BY <1>10 DEF RestartStops, QueueTypeOK, Asked, RequestInv
  <2>3. FreshInv'
    BY <1>10 DEF RestartStops, QueueTypeOK, RequestInv, FreshInv
  <2>4. AnswerInv'
    BY <1>10 DEF RestartStops, QueueTypeOK, RequestInv, FreshInv, AnswerInv
  <2>5. StopInv'
    BY <1>10 DEF RestartStops, QueueTypeOK, Asked, RequestInv, StopInv
  <2>6. AnswersAreTrue' /\ CarriedOutOnce'
    BY <1>10 DEF RestartStops, AnswersAreTrue, CarriedOutOnce
  <2> QED  BY <2>1, <2>2, <2>3, <2>4, <2>5, <2>6
<1>11. CASE RestartWaited
  <2>1. QueueTypeOK'
    BY <1>11 DEF RestartWaited, QueueTypeOK, RequestInv
  <2>2. RequestInv'
    BY <1>11 DEF RestartWaited, QueueTypeOK, Asked, RequestInv
  <2>3. FreshInv'
    BY <1>11 DEF RestartWaited, QueueTypeOK, RequestInv, FreshInv
  <2>4. AnswerInv'
    BY <1>11 DEF RestartWaited, QueueTypeOK, RequestInv, FreshInv, AnswerInv
  <2>5. StopInv'
    BY <1>11 DEF RestartWaited, QueueTypeOK, Asked, RequestInv, StopInv
  <2>6. AnswersAreTrue' /\ CarriedOutOnce'
    BY <1>11 DEF RestartWaited, AnswersAreTrue, CarriedOutOnce
  <2> QED  BY <2>1, <2>2, <2>3, <2>4, <2>5, <2>6
<1>12. CASE RestartLaunches
  <2>1. QueueTypeOK'
    BY <1>12 DEF RestartLaunches, QueueTypeOK, RequestInv
  <2>2. RequestInv'
    BY <1>12 DEF RestartLaunches, QueueTypeOK, Asked, RequestInv
  <2>3. FreshInv'
    BY <1>12 DEF RestartLaunches, QueueTypeOK, RequestInv, FreshInv
  <2>4. AnswerInv'
    <3>1. carried'[now] = carried[now] + 1 /\ carried[now] \in Nat /\ now' = now /\ answer' = "ok"
      BY <1>12 DEF RestartLaunches, QueueTypeOK
    <3> QED  BY <3>1 DEF AnswerInv
  <2>5. StopInv'
    BY <1>12 DEF RestartLaunches, QueueTypeOK, Asked, RequestInv, StopInv
  <2>6. AnswersAreTrue' /\ CarriedOutOnce'
    BY <1>12 DEF RestartLaunches, QueueTypeOK, RequestInv, FreshInv,
               AnswersAreTrue, CarriedOutOnce
  <2> QED  BY <2>1, <2>2, <2>3, <2>4, <2>5, <2>6
<1>13. CASE RestartFails
  <2>1. QueueTypeOK'
    BY <1>13 DEF RestartFails, QueueTypeOK, RequestInv
  <2>2. RequestInv'
    BY <1>13 DEF RestartFails, QueueTypeOK, Asked, RequestInv
  <2>3. FreshInv'
    BY <1>13 DEF RestartFails, QueueTypeOK, RequestInv, FreshInv
  <2>4. AnswerInv'
    BY <1>13 DEF RestartFails, QueueTypeOK, RequestInv, FreshInv, AnswerInv
  <2>5. StopInv'
    BY <1>13 DEF RestartFails, QueueTypeOK, Asked, RequestInv, StopInv
  <2>6. AnswersAreTrue' /\ CarriedOutOnce'
    BY <1>13 DEF RestartFails, AnswersAreTrue, CarriedOutOnce
  <2> QED  BY <2>1, <2>2, <2>3, <2>4, <2>5, <2>6
<1>14. CASE Answer
  <2>1. QueueTypeOK'
    <3>1. now \in Requests /\ answer \in Responses
      BY <1>14 DEF Answer, QueueTypeOK
    <3>2. CASE Asleep
      <4>1. \/ UNCHANGED faults
            \/ faults < MaxFaults /\ faults' = faults + 1
        BY <1>14 DEF Answer
      <4>2. botched' \in {botched, botched \cup {now}}
        BY <1>14 DEF Answer
      <4>3. response' \in {response, [response EXCEPT ![now] = answer]}
        BY <1>14 DEF Answer
      <4>4. faults' \in 0 .. MaxFaults /\ botched' \subseteq Requests
        BY <3>1, <4>1, <4>2 DEF QueueTypeOK
      <4>5. response' \in [Requests -> Responses \cup {Nothing}]
        BY <3>1, <4>3 DEF QueueTypeOK
      <4> QED  BY <1>14, <3>2, <4>4, <4>5 DEF Answer, QueueTypeOK
    <3>3. CASE at' = "removing" /\ response' = [response EXCEPT ![now] = answer]
      BY <1>14, <3>3 DEF Answer, QueueTypeOK
    <3> QED  BY <1>14, <3>2, <3>3 DEF Answer
  <2>2. RequestInv'
    BY <1>14 DEF Answer, QueueTypeOK, Asked, RequestInv
  <2>3. FreshInv'
    BY <1>14 DEF Answer, QueueTypeOK, RequestInv, FreshInv
  <2>4. AnswerInv'
    BY <1>14 DEF Answer, QueueTypeOK, RequestInv, FreshInv, AnswerInv
  <2>5. StopInv'
    BY <1>14 DEF Answer, QueueTypeOK, Asked, RequestInv, StopInv
  <2>6. AnswersAreTrue' /\ CarriedOutOnce'
    BY <1>14 DEF Answer, QueueTypeOK, FreshInv, AnswerInv, AnswersAreTrue, CarriedOutOnce
  <2> QED  BY <2>1, <2>2, <2>3, <2>4, <2>5, <2>6
<1>15. CASE RemoveRequest
  <2>1. QueueTypeOK'
    <3>1. now \in Requests /\ now \notin batch
      BY <1>15 DEF RemoveRequest, QueueTypeOK
    <3>2. /\ faults' \in 0 .. MaxFaults /\ botched' \subseteq Requests
          /\ expired' \subseteq Requests /\ queued' \subseteq queued
          /\ queued \ {now} \subseteq queued'
      <4>1. CASE /\ queued' = queued \ {now} /\ expired' = expired \ {now}
                 /\ UNCHANGED <<faults, botched>>
        BY <4>1 DEF QueueTypeOK
      <4>2. CASE Fault /\ botched' = botched \cup {now} /\ UNCHANGED <<queued, expired>>
        BY <3>1, <4>2 DEF QueueTypeOK
      <4> QED  BY <1>15, <4>1, <4>2 DEF RemoveRequest
    <3>3. /\ now' = Nothing /\ answer' = Nothing /\ batch' = batch
          /\ \/ at' = "asleep" /\ batch' = {}
             \/ at' = "passing" /\ batch' # {}
      BY <1>15 DEF RemoveRequest
    <3>4. UNCHANGED <<process, runVars, clientVars, response, carried>>
      BY <1>15 DEF RemoveRequest
    <3> QED  BY <3>1, <3>2, <3>3, <3>4 DEF QueueTypeOK
  <2>2. RequestInv'
    BY <1>15 DEF RemoveRequest, QueueTypeOK, Asked, RequestInv
  <2>3. FreshInv'
    <3>1. ASSUME NEW q \in Mine', q \notin botched'
          PROVE  q \in Mine \ botched /\ q # now /\ carried'[q] = carried[q] /\ response'[q] = response[q]
      BY <1>15, <3>1 DEF RemoveRequest
    <3>2. \A q \in Mine \ botched : q # now => carried[q] = 0 /\ response[q] = Nothing
      BY DEF FreshInv
    <3> QED  BY <3>1, <3>2 DEF FreshInv
  <2>4. AnswerInv'
    BY <1>15 DEF RemoveRequest, QueueTypeOK, RequestInv, FreshInv, AnswerInv
  <2>5. StopInv'
    BY <1>15 DEF RemoveRequest, QueueTypeOK, Asked, RequestInv, StopInv
  <2>6. AnswersAreTrue' /\ CarriedOutOnce'
    BY <1>15 DEF RemoveRequest, QueueTypeOK, FreshInv, AnswerInv, AnswersAreTrue, CarriedOutOnce
  <2> QED  BY <2>1, <2>2, <2>3, <2>4, <2>5, <2>6
<1>16. CASE Crash
  <2>1. QueueTypeOK'
    BY <1>16 DEF Crash, QueueTypeOK, RequestInv
  <2>2. RequestInv'
    BY <1>16 DEF Crash, QueueTypeOK, Asked, RequestInv
  <2>3. FreshInv'
    <3>1. \A q \in Requests : q \in queued => request[q].owner <= process
      BY DEF RequestInv
    <3>2. process \in Nat /\ process' = process + 1 /\ UNCHANGED <<queued, request>>
      BY <1>16 DEF Crash, QueueTypeOK
    <3>3. \A q \in queued : q \in Requests /\ request[q] \in Asked
      BY DEF QueueTypeOK, RequestInv
    <3>4. \A q \in queued : request[q].owner \in Nat
      BY <3>3 DEF Asked
    <3>5. ASSUME NEW q \in queued PROVE request[q].owner # process + 1
      <4>1. request[q].owner <= process /\ request[q].owner \in Nat /\ process \in Nat
        BY <3>1, <3>2, <3>3, <3>4, <3>5
      <4> QED  BY <4>1
    <3>6. Mine' = {q \in queued : request[q].owner = process + 1}
      BY <3>2
    <3> QED  BY <3>5, <3>6 DEF FreshInv
  <2>4. AnswerInv'
    BY <1>16 DEF Crash, QueueTypeOK, RequestInv, FreshInv, AnswerInv
  <2>5. StopInv'
    BY <1>16 DEF Crash, QueueTypeOK, Asked, RequestInv, StopInv
  <2>6. AnswersAreTrue' /\ CarriedOutOnce'
    BY <1>16 DEF Crash, AnswersAreTrue, CarriedOutOnce
  <2> QED  BY <2>1, <2>2, <2>3, <2>4, <2>5, <2>6
<1>17. CASE UNCHANGED queueVars
  BY <1>17 DEF QueueTypeOK, RequestInv, FreshInv, AnswerInv, StopInv, AnswersAreTrue, CarriedOutOnce
<1> QED
  BY <1>1, <1>2, <1>3, <1>4, <1>5, <1>6, <1>7, <1>8, <1>9, <1>10, <1>11, <1>12, <1>13, <1>14, <1>15,
     <1>16, <1>17 DEF QueueNext, ListenerStep, ClientStep

(* The variables hold what the files and the listener can hold. *)
THEOREM QueueTypeCorrect == QueueSpec => []QueueTypeOK
  BY QueueStartsRight, StepsKeepListenerInv, PTL DEF QueueSpec, ListenerInv

(* What a client reads is what happened to the run, in whatever order       *)
(* requests, failures of files and crashes fall (control.py:105-139;        *)
(* manager.py:427-470).                                                     *)
THEOREM ClientsHearTheTruth == QueueSpec => []AnswersAreTrue
  BY QueueStartsRight, StepsKeepListenerInv, PTL DEF QueueSpec, ListenerInv

(* The listener's passes carry a request out once unless its answer or its  *)
(* removal failed, and a stop then never a third time                       *)
(* (control.py:108-141).                                                    *)
THEOREM RequestsAreCarriedOutOnce == QueueSpec => []CarriedOutOnce
  BY QueueStartsRight, StepsKeepListenerInv, PTL DEF QueueSpec, ListenerInv
=============================================================================
