---------------------------- MODULE RpcRunProofs ----------------------------
(***************************************************************************)
(* Whatever way a call takes, its method is started at most once, and it   *)
(* was started if the caller got results (RunOnce), for any number of      *)
(* calls: by RunsInv, which says where a call that has not run can be.     *)
(***************************************************************************)
EXTENDS RpcInvProofs

-----------------------------------------------------------------------------
(* What grows stays. *)

Grows(C, C2) == \A n \in DOMAIN C : n \in DOMAIN C2 /\ C2[n].on = C[n].on /\ C2[n].route = C[n].route
Extends(T, T2) == \A i \in DOMAIN T : i \in DOMAIN T2 /\ T2[i] = T[i]

LEMMA Alike ==
  ASSUME NEW C
  PROVE  Grows(C, C) /\ Extends(C, C)
BY DEF Grows, Extends

LEMMA RunStays ==
  ASSUME NEW T, NEW T2, Extends(T, T2), NEW v, NEW n, RunHere(T, v, n)
  PROVE  RunHere(T2, v, n)
<1>1. PICK i \in DOMAIN T : T[i].from = v /\ T[i].n = n
  BY DEF RunHere
<1>2. i \in DOMAIN T2 /\ T2[i] = T[i]
  BY DEF Extends
<1>. QED
  BY <1>1, <1>2 DEF RunHere

LEMMA RanStays ==
  ASSUME NEW T, NEW T2, Extends(T, T2), NEW K, NEW K2, Grows(K, K2), NEW v, NEW n, Ran(T, K, v, n)
  PROVE  Ran(T2, K2, v, n)
<1>1. CASE RunHere(T, v, n)
  BY <1>1, RunStays DEF Ran
<1>2. CASE \E f \in DOMAIN K : Forwarding(K[f], n) /\ RunHere(T, Peer(v), f)
  <2>1. PICK f \in DOMAIN K : Forwarding(K[f], n) /\ RunHere(T, Peer(v), f)
    BY <1>2
  <2>2. f \in DOMAIN K2 /\ K2[f].on = K[f].on
    BY DEF Grows
  <2>3. Forwarding(K2[f], n) /\ RunHere(T2, Peer(v), f)
    BY <2>1, <2>2, RunStays DEF Forwarding
  <2>. QED
    BY <2>2, <2>3 DEF Ran
<1>. QED
  BY <1>1, <1>2 DEF Ran

LEMMA EntryRunStays ==
  ASSUME NEW T, NEW T2, Extends(T, T2), NEW C, NEW C2, Grows(C, C2), NEW K, NEW K2, Grows(K, K2),
         NEW v, NEW a, EntryRun(a, T, C, K, v), a.callee.k = "question" => a.callee.id \in DOMAIN K
  PROVE  EntryRun(a, T2, C2, K2, v)
<1>1. a.n \in DOMAIN C2 /\ C2[a.n].route = C[a.n].route
  BY DEF EntryRun, Grows
<1>2. Ran(T, K, v, a.n) => Ran(T2, K2, v, a.n)
  BY RanStays
<1>3. a.callee.k = "question" => Forwarding(K2[a.callee.id], a.n)
  BY DEF EntryRun, Grows, Forwarding
<1>. QED
  BY <1>1, <1>2, <1>3 DEF EntryRun

LEMMA EntryRunsStay ==
  ASSUME NEW T, NEW T2, Extends(T, T2), NEW C, NEW C2, Grows(C, C2), NEW K, NEW K2, Grows(K, K2),
         NEW v, NEW A, EntryRuns(A, T, C, K, v),
         \A id \in DOMAIN A : A[id].callee.k = "question" => A[id].callee.id \in DOMAIN K
  PROVE  EntryRuns(A, T2, C2, K2, v)
BY EntryRunStays DEF EntryRuns

\* No run of a call in flight is added.
StillUnrun(T, T2, K, K2, v, s) ==
  \A j \in DOMAIN s : s[j].k = "call" /\ Unrun(T, K, v, s[j].n) => Unrun(T2, K2, v, s[j].n)

LEMMA ChannelRunsStay ==
  ASSUME NEW T, NEW T2, NEW C, NEW C2, Grows(C, C2), NEW K, NEW K2, NEW v, NEW s,
         StillUnrun(T, T2, K, K2, v, s), ChannelRuns(s, T, C, K, v)
  PROVE  ChannelRuns(s, T2, C2, K2, v)
<1>1. ASSUME NEW j \in DOMAIN s PROVE MessageRun(s[j], T2, C2, K2, v)
  <2>1. MessageRun(s[j], T, C, K, v)
    BY DEF ChannelRuns
  <2>2. s[j].n \in DOMAIN C => s[j].n \in DOMAIN C2 /\ C2[s[j].n].route = C[s[j].n].route
    BY DEF Grows
  <2>3. s[j].k = "call" /\ Unrun(T, K, v, s[j].n) => Unrun(T2, K2, v, s[j].n)
    BY DEF StillUnrun
  <2>. QED
    BY <2>1, <2>2, <2>3 DEF MessageRun
<1>. QED
  BY <1>1 DEF ChannelRuns

LEMMA ChannelRunsTail ==
  ASSUME NEW s \in Seq(Message), s # <<>>, NEW T, NEW C, NEW K, NEW v, ChannelRuns(s, T, C, K, v)
  PROVE  /\ ChannelRuns(Tail(s), T, C, K, v) /\ MessageRun(Head(s), T, C, K, v)
         /\ Head(s).k = "call" => \A j \in DOMAIN Tail(s) : Tail(s)[j].k = "call" => Tail(s)[j].n # Head(s).n
<1>1. Len(s) \in Nat /\ Len(s) > 0 /\ DOMAIN s = 1 .. Len(s) /\ 1 \in DOMAIN s /\ Head(s) = s[1]
  OBVIOUS
<1>2. \A j \in DOMAIN Tail(s) : j + 1 \in DOMAIN s /\ Tail(s)[j] = s[j + 1] /\ j \in Nat /\ j + 1 # 1
  OBVIOUS
<1>3. \A j \in DOMAIN Tail(s) : MessageRun(Tail(s)[j], T, C, K, v)
  BY <1>2 DEF ChannelRuns
<1>4. ASSUME NEW i \in DOMAIN Tail(s), NEW j \in DOMAIN Tail(s),
             Tail(s)[i].k = "call", Tail(s)[j].k = "call", Tail(s)[i].n = Tail(s)[j].n
      PROVE  i = j
  <2>1. i + 1 = j + 1
    BY <1>2, <1>4 DEF ChannelRuns
  <2>. QED
    BY <1>2, <2>1
<1>5. ChannelRuns(Tail(s), T, C, K, v)
  BY <1>3, <1>4 DEF ChannelRuns
<1>6. MessageRun(Head(s), T, C, K, v)
  BY <1>1 DEF ChannelRuns
<1>7. ASSUME Head(s).k = "call", NEW j \in DOMAIN Tail(s), Tail(s)[j].k = "call", Tail(s)[j].n = Head(s).n
      PROVE  FALSE
  <2>1. j + 1 = 1
    BY <1>1, <1>2, <1>7 DEF ChannelRuns
  <2>. QED
    BY <1>2, <2>1
<1>. QED
  BY <1>5, <1>6, <1>7

\* A message is sent; a Call is one that was not in flight.
LEMMA ChannelRunsSent ==
  ASSUME NEW s \in Seq(Message), NEW m \in Message, NEW T, NEW C, NEW K, NEW v,
         ChannelRuns(s, T, C, K, v), MessageRun(m, T, C, K, v),
         m.k = "call" => \A j \in DOMAIN s : s[j].k = "call" => s[j].n # m.n
  PROVE  ChannelRuns(s \o <<m>>, T, C, K, v)
<1>1. PICK t : t = s \o <<m>>
  OBVIOUS
<1>2. \A j \in DOMAIN t : \/ j \in DOMAIN s /\ t[j] = s[j]
                          \/ j = Len(s) + 1 /\ j \notin DOMAIN s /\ t[j] = m
  BY <1>1
<1>3. \A j \in DOMAIN t : MessageRun(t[j], T, C, K, v)
  BY <1>2 DEF ChannelRuns
<1>4. ASSUME NEW i \in DOMAIN t, NEW j \in DOMAIN t, t[i].k = "call", t[j].k = "call", t[i].n = t[j].n
      PROVE  i = j
  <2>1. CASE i \in DOMAIN s /\ j \in DOMAIN s
    BY <1>2, <1>4, <2>1 DEF ChannelRuns
  <2>2. CASE i \notin DOMAIN s \/ j \notin DOMAIN s
    BY <1>2, <1>4, <2>2
  <2>. QED
    BY <2>1, <2>2
<1>. QED
  BY <1>1, <1>3, <1>4 DEF ChannelRuns

LEMMA CallRunStays ==
  ASSUME NEW T, NEW T2, Extends(T, T2), NEW K, NEW K2, Grows(K, K2), NEW v, NEW r, NEW n,
         CallRun(r, n, T, K, v), r.on.k = "answer" => ~RunHere(T2, Peer(v), r.on.n)
  PROVE  CallRun(r, n, T2, K2, v)
<1>1. Ran(T, K, v, n) => Ran(T2, K2, v, n)
  BY RanStays
<1>2. r.on.n \in DOMAIN K => r.on.n \in DOMAIN K2 /\ K2[r.on.n].route = K[r.on.n].route
  BY DEF Grows
<1>. QED
  BY <1>1, <1>2 DEF CallRun

\* No call that was forwarded is run by the vat that forwarded it.
StillForwarded(C, T2, v) == \A n \in DOMAIN C : C[n].on.k = "answer" => ~RunHere(T2, Peer(v), C[n].on.n)

LEMMA CallRunsStay ==
  ASSUME NEW T, NEW T2, Extends(T, T2), NEW K, NEW K2, Grows(K, K2), NEW v, NEW C,
         CallRuns(T, C, K, v), StillForwarded(C, T2, v)
  PROVE  CallRuns(T2, C, K2, v)
<1>1. ASSUME NEW n \in DOMAIN C PROVE CallRun(C[n], n, T2, K2, v)
  <2>1. CallRun(C[n], n, T, K, v) /\ (C[n].on.k = "answer" => ~RunHere(T2, Peer(v), C[n].on.n))
    BY DEF CallRuns, StillForwarded
  <2>. QED
    BY <2>1, CallRunStays
<1>. QED
  BY <1>1 DEF CallRuns

LEMMA ForwardedStill ==
  ASSUME NEW T, NEW C, NEW K, NEW v, CallRuns(T, C, K, v)
  PROVE  StillForwarded(C, T, v)
BY DEF CallRuns, CallRun, StillForwarded

LEMMA CallRunsSet ==
  ASSUME NEW T, NEW C, NEW K, NEW v, CallRuns(T, C, K, v), NEW n \in DOMAIN C, NEW r,
         r.on = C[n].on, r.route = C[n].route,
         r.state \in {"results", "dropped"} /\ r.route # "bootstrap" => Ran(T, K, v, n),
         NEW B, B = [C EXCEPT ![n] = r]
  PROVE  CallRuns(T, B, K, v) /\ Grows(C, B) /\ Grows(B, C)
<1>1. DOMAIN B = DOMAIN C /\ B[n] = r /\ \A k \in DOMAIN C : k # n => B[k] = C[k]
  OBVIOUS
<1>2. CallRun(r, n, T, K, v)
  <2>1. CallRun(C[n], n, T, K, v)
    BY DEF CallRuns
  <2>. QED
    BY <2>1 DEF CallRun
<1>3. \A k \in DOMAIN B : CallRun(B[k], k, T, K, v)
  BY <1>1, <1>2 DEF CallRuns
<1>4. \A k \in DOMAIN C : B[k].on = C[k].on /\ B[k].route = C[k].route
  BY <1>1
<1>5. CallRuns(T, B, K, v)
  BY <1>1, <1>3, <1>4 DEF CallRuns
<1>. QED
  BY <1>1, <1>4, <1>5 DEF Grows

\* Calls that are not added to.
LEMMA UnrunStays ==
  ASSUME NEW T, NEW K, NEW K2, Grows(K2, K), NEW v, NEW s
  PROVE  StillUnrun(T, T, K, K2, v, s)
BY DEF StillUnrun, Unrun, Grows, Forwarding

\* RunsInv, for one vat.
RunsOK(T, C, K, s, A, v) ==
  Logged(T, v, C) /\ ChannelRuns(s, T, C, K, v) /\ EntryRuns(A, T, C, K, v) /\ CallRuns(T, C, K, v)

LEMMA RunsOf1 ==
  ASSUME RunsInv, NEW v \in Vat
  PROVE  /\ LogOnce(delivered)
         /\ RunsOK(delivered, calls[v], calls[Peer(v)], net[Peer(v)], answers[Peer(v)], v)
         /\ RunsOK(delivered, calls[Peer(v)], calls[v], net[v], answers[v], Peer(v))
BY PeerFacts DEF RunsInv, RunsOK

LEMMA RunsNext ==
  ASSUME NEW v \in Vat, LogOnce(delivered'),
         RunsOK(delivered', calls'[v], calls'[Peer(v)], net'[Peer(v)], answers'[Peer(v)], v),
         RunsOK(delivered', calls'[Peer(v)], calls'[v], net'[v], answers'[v], Peer(v))
  PROVE  RunsInv'
<1>1. PICK w \in Vat : w = Peer(v) /\ Peer(w) = v /\ \A u \in Vat : u = v \/ u = w
  BY PeerFacts
<1>2. \A u \in Vat : RunsOK(delivered', calls'[u], calls'[Peer(u)], net'[Peer(u)], answers'[Peer(u)], u)
  BY <1>1
<1>. QED
  BY <1>2 DEF RunsInv, RunsOK

\* What a vat sends.
Says(s, t) == t = s \/ \E m \in Message : m.k \notin {"call", "bootstrap"} /\ t = s \o <<m>>

\* A step of v that makes no call and starts no method.
LEMMA QuietRuns ==
  ASSUME Inv, Inv', RunsInv, NEW v \in Vat, delivered' = delivered, calls'[Peer(v)] = calls[Peer(v)],
         Grows(calls[v], calls'[v]), Grows(calls'[v], calls[v]),
         CallRuns(delivered, calls'[v], calls[Peer(v)], v),
         answers'[Peer(v)] = answers[Peer(v)],
         EntryRuns(answers'[v], delivered, calls[Peer(v)], calls'[v], Peer(v)),
         ReadFrom(net[v], net'[v]), Says(net[Peer(v)], net'[Peer(v)])
  PROVE  RunsInv'
<1>1. PICK w \in Vat : w = Peer(v) /\ Peer(w) = v
  BY PeerFacts
<1>2. PICK T, C, C2, K, A, A2 : /\ T = delivered /\ C = calls[v] /\ C2 = calls'[v] /\ K = calls[w]
                                /\ A = answers[w] /\ A2 = answers'[v]
  OBVIOUS
<1>3. PICK s, s2, t, t2 : s = net[w] /\ s2 = net'[w] /\ t = net[v] /\ t2 = net'[v]
  OBVIOUS
<1>4. RunsOK(T, C, K, s, A, v) /\ RunsOK(T, K, C, t, answers[v], w) /\ LogOnce(T)
  BY <1>1, <1>2, <1>3, RunsOf1
<1>5. s \in Seq(Message) /\ t \in Seq(Message)
  BY <1>1, <1>3, ChannelTypes
<1>6. Grows(C, C2) /\ Grows(C2, C) /\ Grows(K, K) /\ Extends(T, T)
  BY <1>1, <1>2, Alike
<1>7. CallRuns(T, C2, K, v) /\ EntryRuns(A2, T, K, C2, w) /\ ReadFrom(t, t2) /\ Says(s, s2)
  BY <1>1, <1>2, <1>3
<1>8. RunsOK(T, C2, K, s2, A, v)
  <2>1. Logged(T, v, C2)
    BY <1>4, <1>6 DEF RunsOK, Logged, Grows
  <2>2. ChannelRuns(s, T, C2, K, v)
    BY <1>4, <1>6, UnrunStays, ChannelRunsStay DEF RunsOK
  <2>3. ChannelRuns(s2, T, C2, K, v)
    <3>1. CASE s2 = s
      BY <2>2, <3>1
    <3>2. ASSUME NEW m \in Message, m.k \notin {"call", "bootstrap"}, s2 = s \o <<m>>
          PROVE  ChannelRuns(s2, T, C2, K, v)
      <4>1. MessageRun(m, T, C2, K, v)
        BY <3>2 DEF MessageRun
      <4>. QED
        BY <1>5, <2>2, <3>2, <4>1, ChannelRunsSent
    <3>. QED
      BY <1>7, <3>1, <3>2 DEF Says
  <2>4. EntryRuns(A, T, C2, K, v)
    <3>1. AnswersOK(A, K, exports[w], imports[w])
      BY <1>1, <1>2, OfVat DEF VatOK
    <3>2. \A id \in DOMAIN A : A[id].callee.k = "question" => A[id].callee.id \in DOMAIN K
      BY <3>1 DEF AnswersOK, EntryOK
    <3>3. EntryRuns(A, T, C, K, v)
      BY <1>4 DEF RunsOK
    <3>. QED
      BY <1>6, <3>2, <3>3, EntryRunsStay
  <2>. QED
    BY <1>7, <2>1, <2>3, <2>4 DEF RunsOK
<1>9. RunsOK(T, K, C2, t2, A2, w)
  <2>1. Logged(T, w, K) /\ ChannelRuns(t, T, K, C, w) /\ CallRuns(T, K, C, w)
    BY <1>4 DEF RunsOK
  <2>2. ChannelRuns(t, T, K, C2, w)
    BY <1>6, <2>1, UnrunStays, ChannelRunsStay
  <2>3. ChannelRuns(t2, T, K, C2, w)
    BY <1>5, <1>7, <2>2, ChannelRunsTail DEF ReadFrom
  <2>4. CallRuns(T, K, C2, w)
    BY <1>6, <2>1, ForwardedStill, CallRunsStay
  <2>. QED
    BY <1>7, <2>1, <2>3, <2>4 DEF RunsOK
<1>10. delivered' = T /\ calls'[w] = K /\ answers'[w] = A
  BY <1>1, <1>2
<1>. QED
  BY <1>1, <1>2, <1>3, <1>4, <1>8, <1>9, <1>10, RunsNext

\* The entries of a table.
LEMMA EntryRunsPut ==
  ASSUME NEW T, NEW C, NEW K, NEW v, NEW A, EntryRuns(A, T, C, K, v), NEW id, NEW a, EntryRun(a, T, C, K, v),
         NEW S, S = Put(A, id, a)
  PROVE  EntryRuns(S, T, C, K, v)
<1>1. DOMAIN S = DOMAIN A \cup {id} /\ S[id] = a /\ \A t \in DOMAIN A : t # id => S[t] = A[t]
  BY DEF Put
<1>. QED
  BY <1>1 DEF EntryRuns

LEMMA EntryRunsSet ==
  ASSUME NEW T, NEW C, NEW K, NEW v, NEW A, EntryRuns(A, T, C, K, v), NEW id \in DOMAIN A, NEW a,
         a.n = A[id].n, a.callee = A[id].callee,
         a.ok => \/ A[id].ok
                 \/ C[a.n].route # "bootstrap" => Ran(T, K, v, a.n),
         NEW S, S = [A EXCEPT ![id] = a]
  PROVE  EntryRuns(S, T, C, K, v)
<1>1. DOMAIN S = DOMAIN A /\ S[id] = a /\ \A t \in DOMAIN A : t # id => S[t] = A[t]
  OBVIOUS
<1>2. EntryRun(a, T, C, K, v)
  <2>1. EntryRun(A[id], T, C, K, v)
    BY DEF EntryRuns
  <2>. QED
    BY <2>1 DEF EntryRun
<1>. QED
  BY <1>1, <1>2 DEF EntryRuns

LEMMA EntryRunsRemoved ==
  ASSUME NEW T, NEW C, NEW K, NEW v, NEW A, EntryRuns(A, T, C, K, v), NEW id, NEW S, S = Remove(A, id)
  PROVE  EntryRuns(S, T, C, K, v)
BY DEF EntryRuns, Remove

\* A step of v that changes no call, and starts no method.
LEMMA AnswerRuns ==
  ASSUME Inv, Inv', RunsInv, NEW v \in Vat, delivered' = delivered, calls' = calls,
         answers'[Peer(v)] = answers[Peer(v)],
         EntryRuns(answers'[v], delivered, calls[Peer(v)], calls[v], Peer(v)),
         ReadFrom(net[v], net'[v]), Says(net[Peer(v)], net'[Peer(v)])
  PROVE  RunsInv'
<1>1. CallRuns(delivered, calls'[v], calls[Peer(v)], v)
  BY RunsOf1 DEF RunsOK
<1>2. Grows(calls[v], calls'[v]) /\ Grows(calls'[v], calls[v]) /\ calls'[Peer(v)] = calls[Peer(v)]
  BY Alike
<1>3. EntryRuns(answers'[v], delivered, calls[Peer(v)], calls'[v], Peer(v))
  OBVIOUS
<1>. QED
  BY <1>1, <1>2, <1>3, QuietRuns

LEMMA NothingRuns ==
  ASSUME Inv, Inv', RunsInv, delivered' = delivered, calls' = calls, answers' = answers, net' = net
  PROVE  RunsInv'
<1>1. PICK v : v \in Vat
  BY FS_EmptySet, VatAssumption
<1>2. EntryRuns(answers'[v], delivered, calls[Peer(v)], calls[v], Peer(v))
  BY <1>1, RunsOf1 DEF RunsOK
<1>3. /\ answers'[Peer(v)] = answers[Peer(v)]
      /\ ReadFrom(net[v], net'[v]) /\ Says(net[Peer(v)], net'[Peer(v)])
  BY NothingRead DEF Says
<1>. QED
  BY <1>1, <1>2, <1>3, AnswerRuns

\* A step of v that changes what one of its calls came to.
LEMMA CallEndsRuns ==
  ASSUME Inv, Inv', RunsInv, NEW v \in Vat, delivered' = delivered, answers' = answers,
         NEW n \in DOMAIN calls[v], NEW r, r.on = calls[v][n].on, r.route = calls[v][n].route,
         r.state \in {"results", "dropped"} /\ r.route # "bootstrap" => Ran(delivered, calls[Peer(v)], v, n),
         calls' = [calls EXCEPT ![v] = [calls[v] EXCEPT ![n] = r]],
         ReadFrom(net[v], net'[v]), Says(net[Peer(v)], net'[Peer(v)])
  PROVE  RunsInv'
<1>1. PICK w \in Vat : w = Peer(v) /\ Peer(w) = v
  BY PeerFacts
<1>2. PICK T, C, K, B, A : /\ T = delivered /\ C = calls[v] /\ K = calls[w] /\ B = calls'[v]
                           /\ A = answers[v]
  OBVIOUS
<1>3. B = [C EXCEPT ![n] = r] /\ OnlyOf(v, calls, calls')
  BY <1>2, OfVat, Changed
<1>4. calls'[w] = K
  BY <1>1, <1>2, <1>3 DEF OnlyOf
<1>5. RunsOK(T, C, K, net[w], answers[w], v) /\ RunsOK(T, K, C, net[v], A, w)
  BY <1>1, <1>2, RunsOf1
<1>6. CallRuns(T, B, K, v) /\ Grows(C, B) /\ Grows(B, C)
  <2>1. CallRuns(T, C, K, v) /\ n \in DOMAIN C /\ r.on = C[n].on /\ r.route = C[n].route
    BY <1>2, <1>5 DEF RunsOK
  <2>2. r.state \in {"results", "dropped"} /\ r.route # "bootstrap" => Ran(T, K, v, n)
    BY <1>1, <1>2
  <2>. QED
    BY <1>3, <2>1, <2>2, CallRunsSet
<1>7. EntryRuns(A, T, K, B, w)
  <2>1. AnswersOK(A, C, exports[v], imports[v])
    BY <1>2, OfVat DEF VatOK
  <2>2. \A id \in DOMAIN A : A[id].callee.k = "question" => A[id].callee.id \in DOMAIN C
    BY <2>1 DEF AnswersOK, EntryOK
  <2>3. EntryRuns(A, T, K, C, w) /\ Grows(K, K) /\ Extends(T, T)
    BY <1>5, Alike DEF RunsOK
  <2>. QED
    BY <1>6, <2>2, <2>3, EntryRunsStay
<1>8. /\ calls'[Peer(v)] = calls[Peer(v)] /\ Grows(calls[v], calls'[v]) /\ Grows(calls'[v], calls[v])
      /\ CallRuns(delivered, calls'[v], calls[Peer(v)], v)
      /\ answers'[Peer(v)] = answers[Peer(v)]
      /\ EntryRuns(answers'[v], delivered, calls[Peer(v)], calls'[v], Peer(v))
  BY <1>1, <1>2, <1>4, <1>6, <1>7
<1>. QED
  BY <1>8, QuietRuns

-----------------------------------------------------------------------------
(* Steps that make no call and start no method. *)

LEMMA InitMainRuns ==
  ASSUME Inv, Inv', RunsInv, NEW v \in Vat, InitMain(v)
  PROVE  RunsInv'
BY NothingRuns DEF InitMain

LEMMA LocalFinishRuns ==
  ASSUME Inv, Inv', RunsInv, NEW v \in Vat, NEW n \in DOMAIN calls[v], NEW ok \in BOOLEAN, LocalFinish(v, n, ok)
  PROVE  RunsInv'
<1>1. PICK s : calls' = [calls EXCEPT ![v][n].state = s]
  BY DEF LocalFinish
<1>2. UNCHANGED <<answers, net, delivered>> /\ calls[v][n].route = "local"
  BY DEF LocalFinish, tables
<1>3. calls[v][n] \in CallRecord /\ DOMAIN calls = Vat
  BY CallTypes, OfVat
<1>4. PICK r : r = [calls[v][n] EXCEPT !.state = s]
  OBVIOUS
<1>5. calls' = [calls EXCEPT ![v] = [calls[v] EXCEPT ![n] = r]]
  BY <1>1, <1>4
<1>6. r.on = calls[v][n].on /\ r.route = calls[v][n].route
  BY <1>3, <1>4 DEF CallRecord
<1>7. Ran(delivered, calls[Peer(v)], v, n)
  <2>1. CallRun(calls[v][n], n, delivered, calls[Peer(v)], v)
    BY RunsOf1 DEF RunsOK, CallRuns
  <2>. QED
    BY <1>2, <2>1 DEF CallRun
<1>8. ReadFrom(net[v], net'[v]) /\ Says(net[Peer(v)], net'[Peer(v)])
  BY <1>2, NothingRead DEF Says
<1>. QED
  BY <1>2, <1>5, <1>6, <1>7, <1>8, CallEndsRuns

LEMMA DropRuns ==
  ASSUME Inv, Inv', RunsInv, NEW v \in Vat, NEW n \in DOMAIN calls[v], Drop(v, n)
  PROVE  RunsInv'
<1>1. /\ calls' = [calls EXCEPT ![v][n].state = "dropped", ![v][n].cap = NullClient]
      /\ UNCHANGED <<answers, net, delivered>> /\ calls[v][n].state = "results"
  BY DEF Drop
<1>3. calls[v][n] \in CallRecord /\ DOMAIN calls = Vat
  BY CallTypes, OfVat
<1>4. PICK r : r = [[calls[v][n] EXCEPT !.state = "dropped"] EXCEPT !.cap = NullClient]
  OBVIOUS
<1>5. calls' = [calls EXCEPT ![v] = [calls[v] EXCEPT ![n] = r]]
  BY <1>1, <1>3, <1>4
<1>6. r.on = calls[v][n].on /\ r.route = calls[v][n].route
  BY <1>3, <1>4 DEF CallRecord
<1>7. r.route # "bootstrap" => Ran(delivered, calls[Peer(v)], v, n)
  <2>1. CallRun(calls[v][n], n, delivered, calls[Peer(v)], v)
    BY RunsOf1 DEF RunsOK, CallRuns
  <2>. QED
    BY <1>1, <1>6, <2>1 DEF CallRun
<1>8. ReadFrom(net[v], net'[v]) /\ Says(net[Peer(v)], net'[Peer(v)])
  BY <1>1, NothingRead DEF Says
<1>9. UNCHANGED <<answers, delivered>>
  BY <1>1
<1>. QED
  BY <1>5, <1>6, <1>7, <1>8, <1>9, CallEndsRuns

\* An answer is settled: with results only if its call ran.
LEMMA SettlingRuns ==
  ASSUME Inv, Inv', RunsInv, NEW v \in Vat, NEW id \in DOMAIN answers[v], NEW b,
         b.n = answers[v][id].n, b.callee = answers[v][id].callee,
         b.ok => answers[v][id].ok \/ Ran(delivered, calls[v], Peer(v), b.n),
         answers' = [answers EXCEPT ![v][id] = b],
         NEW m \in Message, m.k = "return", Send(v, <<m>>), UNCHANGED <<calls, delivered>>
  PROVE  RunsInv'
<1>1. PICK w \in Vat : w = Peer(v) /\ Peer(w) = v /\ w # v
  BY PeerFacts
<1>2. answers' = [answers EXCEPT ![v] = [answers[v] EXCEPT ![id] = b]] /\ DOMAIN answers = Vat
  BY OfVat
<1>3. answers'[v] = [answers[v] EXCEPT ![id] = b] /\ answers'[w] = answers[w]
  BY <1>1, <1>2
<1>4. EntryRuns(answers'[v], delivered, calls[w], calls[v], w)
  <2>1. PICK T, C, K, A, S : /\ T = delivered /\ C = calls[w] /\ K = calls[v] /\ A = answers[v]
                             /\ S = answers'[v]
    OBVIOUS
  <2>2. EntryRuns(A, T, C, K, w)
    BY <1>1, <2>1, RunsOf1 DEF RunsOK
  <2>3. /\ b.n = A[id].n /\ b.callee = A[id].callee /\ id \in DOMAIN A
        /\ b.ok => A[id].ok \/ (C[b.n].route # "bootstrap" => Ran(T, K, w, b.n))
        /\ S = [A EXCEPT ![id] = b]
    BY <1>1, <1>3, <2>1
  <2>4. EntryRuns(S, T, C, K, w)
    BY <2>2, <2>3, EntryRunsSet
  <2>. QED
    BY <2>1, <2>4
<1>5. /\ ReadFrom(net[v], net'[v]) /\ Says(net[w], net'[w])
  BY <1>1, WhenSent, NothingRead DEF Says
<1>. QED
  BY <1>1, <1>3, <1>4, <1>5, AnswerRuns

LEMMA FulfillRuns ==
  ASSUME Inv, Inv', RunsInv, NEW v \in Vat, NEW id \in DOMAIN answers[v], NEW c, Fulfill(v, id, c),
         c \in Client, Known(c, exports[v], imports[v]),
         Ran(delivered, calls[v], Peer(v), answers[v][id].n), UNCHANGED <<calls, delivered>>
  PROVE  RunsInv'
<1>1. PICK a, b, d, m : /\ a = answers[v][id] /\ b = Fulfilled(a, c) /\ d = DescriptorFor(v, c)
                        /\ m = ReturnMessage(id, a.n, TRUE, d)
  OBVIOUS
<1>2. answers' = [answers EXCEPT ![v][id] = b] /\ Send(v, <<m>>)
  BY <1>1 DEF Fulfill
<1>3. a \in AnswerRecord /\ id \in Nat /\ a.n \in Nat
  BY <1>1, EntryKnown DEF AnswerRecord
<1>4. b.n = a.n /\ b.callee = a.callee
  BY <1>1, <1>3 DEF Fulfilled, AnswerRecord
<1>5. m \in Message /\ m.k = "return"
  <2>1. m = [k |-> "return", id |-> id, n |-> a.n, ok |-> TRUE, cap |-> d]
    BY <1>1 DEF ReturnMessage
  <2>2. d \in Descriptor
    BY <1>1, DescribedOK
  <2>. QED
    BY <1>3, <2>1, <2>2 DEF Message
<1>6. b.n = answers[v][id].n /\ b.callee = answers[v][id].callee /\ Ran(delivered, calls[v], Peer(v), b.n)
  BY <1>1, <1>4
<1>. QED
  BY <1>2, <1>5, <1>6, SettlingRuns

LEMMA RejectRuns ==
  ASSUME Inv, Inv', RunsInv, NEW v \in Vat, NEW id \in DOMAIN answers[v], Reject(v, id),
         UNCHANGED <<calls, delivered>>
  PROVE  RunsInv'
<1>1. PICK a, b, m : /\ a = answers[v][id] /\ b = [a EXCEPT !.done = TRUE, !.queue = <<>>]
                     /\ m = ReturnMessage(id, a.n, FALSE, NoDescriptor)
  OBVIOUS
<1>2. answers' = [answers EXCEPT ![v][id] = b] /\ Send(v, <<m>>)
  BY <1>1 DEF Reject
<1>3. a \in AnswerRecord /\ id \in Nat /\ a.n \in Nat
  BY <1>1, EntryKnown DEF AnswerRecord
<1>4. b.n = a.n /\ b.callee = a.callee /\ b.ok = a.ok
  BY <1>1, <1>3 DEF AnswerRecord
<1>5. m \in Message /\ m.k = "return"
  <2>1. m = [k |-> "return", id |-> id, n |-> a.n, ok |-> FALSE, cap |-> [k |-> "none", id |-> 0]]
    BY <1>1 DEF ReturnMessage, NoDescriptor
  <2>. QED
    BY <1>3, <2>1 DEF Message, Descriptor
<1>6. b.n = answers[v][id].n /\ b.callee = answers[v][id].callee /\ b.ok = answers[v][id].ok
  BY <1>1, <1>4
<1>. QED
  BY <1>2, <1>5, <1>6, SettlingRuns

LEMMA ServerEndsRuns ==
  ASSUME Inv, Inv', RunsInv, NEW v \in Vat, NEW id, ServerEnds(v, id)
  PROVE  RunsInv'
<1>1. id \in DOMAIN answers[v] /\ (ServerReturns(v, id) \/ ServerThrows(v, id))
  BY DEF ServerEnds
<1>2. answers[v][id].callee.k = "server" /\ UNCHANGED <<calls, delivered>>
  BY <1>1 DEF ServerReturns, ServerThrows, Serving
<1>3. CASE ServerReturns(v, id)
  <2>1. PICK c \in Results(answers[v][id]) : Fulfill(v, id, c)
    BY <1>3 DEF ServerReturns
  <2>2. c = NullClient \/ c = Server(1) \/ c = answers[v][id].param
    BY DEF Results
  <2>3. Server(1) \in Client /\ Known(Server(1), exports[v], imports[v])
    BY DEF Server, Client, Known, Object
  <2>4. c \in Client /\ Known(c, exports[v], imports[v])
    BY <1>1, <2>2, <2>3, NullKnown, EntryKnown
  <2>5. Ran(delivered, calls[v], Peer(v), answers[v][id].n)
    <3>1. EntryRun(answers[v][id], delivered, calls[Peer(v)], calls[v], Peer(v))
      BY <1>1, RunsOf1 DEF RunsOK, EntryRuns
    <3>. QED
      BY <1>2, <3>1 DEF EntryRun
  <2>. QED
    BY <1>1, <1>2, <2>1, <2>4, <2>5, FulfillRuns
<1>4. CASE ServerThrows(v, id)
  BY <1>1, <1>2, <1>4, RejectRuns DEF ServerThrows
<1>. QED
  BY <1>1, <1>3, <1>4

\* A call that was forwarded came back with results: it ran, and not by being
\* forwarded again.
LEMMA JoinEndsRuns ==
  ASSUME Inv, Inv', RunsInv, NEW v \in Vat, NEW id, JoinEnds(v, id)
  PROVE  RunsInv'
<1>1. id \in DOMAIN answers[v] /\ JoinSettles(v, id)
  BY DEF JoinEnds
<1>2. answers[v][id].callee.k = "question" /\ UNCHANGED <<calls, delivered>>
  BY <1>1 DEF JoinSettles
<1>3. PICK f, n, w : f = answers[v][id].callee.id /\ n = answers[v][id].n /\ w = Peer(v)
  OBVIOUS
<1>4. f \in DOMAIN calls[v] /\ calls[v][f].route = "forward"
  BY <1>1, <1>2, <1>3, EntryKnown DEF EntryOK
<1>5. CASE calls[v][f].state = "results"
  <2>1. Fulfill(v, id, calls[v][f].cap)
    BY <1>1, <1>3, <1>5 DEF JoinSettles
  <2>2. Forwarding(calls[v][f], n)
    <3>1. EntryRun(answers[v][id], delivered, calls[w], calls[v], w)
      BY <1>1, <1>3, RunsOf1 DEF RunsOK, EntryRuns
    <3>. QED
      BY <1>2, <1>3, <3>1 DEF EntryRun
  <2>3. CallRuns(delivered, calls[v], calls[w], v) /\ CallRuns(delivered, calls[w], calls[v], w)
    BY <1>3, RunsOf1 DEF RunsOK
  <2>4. Ran(delivered, calls[w], v, f)
    BY <1>4, <1>5, <2>3 DEF CallRuns, CallRun
  <2>5. \A g \in DOMAIN calls[w] : ~Forwarding(calls[w][g], f)
    <3> SUFFICES ASSUME NEW g \in DOMAIN calls[w], Forwarding(calls[w][g], f) PROVE FALSE
      OBVIOUS
    <3>1. calls[w][g].on.k = "answer" /\ calls[w][g].on.n = f
      BY DEF Forwarding
    <3>2. CallRun(calls[w][g], g, delivered, calls[v], w)
      BY <2>3 DEF CallRuns
    <3>. QED
      BY <1>4, <3>1, <3>2 DEF CallRun
  <2>6. RunHere(delivered, v, f)
    BY <2>4, <2>5 DEF Ran
  <2>7. Ran(delivered, calls[v], w, n)
    <3>1. Peer(w) = v
      BY <1>3, PeerFacts
    <3>. QED
      BY <1>4, <2>2, <2>6, <3>1 DEF Ran
  <2>. QED
    BY <1>1, <1>2, <1>3, <1>4, <2>1, <2>7, HeldKnown, FulfillRuns
<1>6. CASE calls[v][f].state # "results"
  <2>1. Reject(v, id)
    BY <1>1, <1>3, <1>6 DEF JoinSettles
  <2>. QED
    BY <1>1, <1>2, <2>1, RejectRuns
<1>. QED
  BY <1>5, <1>6

LEMMA RejectNextRuns ==
  ASSUME Inv, Inv', RunsInv, NEW v \in Vat, RejectNext(v)
  PROVE  RunsInv'
<1>1. PICK id, R : id = Head(rejecting[v]) /\ R = rejecting[v]
  OBVIOUS
<1>2. R # <<>> /\ R \in Seq(Nat) /\ 1 \in DOMAIN R /\ R[1] = id
  <2>1. R # <<>>
    BY <1>1 DEF RejectNext
  <2>2. R \in Seq(Nat)
    BY <1>1, OfVat DEF VatOK, QueuesOK
  <2>. QED
    BY <1>1, <2>1, <2>2
<1>3. id \in DOMAIN answers[v] /\ ~answers[v][id].done
  <2>1. QueuesOK(answers[v], R)
    BY <1>1, OfVat DEF VatOK
  <2>. QED
    BY <1>2, <2>1 DEF QueuesOK
<1>4. Reject(v, id) /\ UNCHANGED <<calls, delivered>>
  BY <1>1, <1>3 DEF RejectNext
<1>. QED
  BY <1>3, <1>4, RejectRuns

\* A message is read, and at most one that is no Call is sent.
LEMMA Replied ==
  ASSUME Inv, NEW v \in Vat, NEW k, Handles(v, k), NEW ms, Reply(v, ms),
         ms = <<>> \/ \E m \in Message : m.k \notin {"call", "bootstrap"} /\ ms = <<m>>
  PROVE  ReadFrom(net[v], net'[v]) /\ Says(net[Peer(v)], net'[Peer(v)])
<1>1. net[v] # <<>>
  BY HeadFacts
<1>2. CASE ms = <<>>
  BY <1>1, <1>2, WhenRead DEF ReadFrom, Says
<1>3. ASSUME NEW m \in Message, m.k \notin {"call", "bootstrap"}, ms = <<m>>
      PROVE  ReadFrom(net[v], net'[v]) /\ Says(net[Peer(v)], net'[Peer(v)])
  <2>1. net'[v] = Tail(net[v]) /\ net'[Peer(v)] = net[Peer(v)] \o <<m>>
    BY <1>3, WhenAnswered
  <2>. QED
    BY <1>1, <1>3, <2>1 DEF ReadFrom, Says
<1>. QED
  BY <1>2, <1>3

\* What is said of the message that is read.
LEMMA HeadRuns ==
  ASSUME Inv, RunsInv, NEW v \in Vat, NEW k, Handles(v, k), NEW m, m = Head(net[v])
  PROVE  /\ m \in Message /\ m.k = k
         /\ MessageRun(m, delivered, calls[Peer(v)], calls[v], Peer(v))
         /\ ChannelRuns(Tail(net[v]), delivered, calls[Peer(v)], calls[v], Peer(v))
         /\ m.k = "call" => \A j \in DOMAIN Tail(net[v]) :
                              Tail(net[v])[j].k = "call" => Tail(net[v])[j].n # m.n
<1>1. net[v] \in Seq(Message) /\ net[v] # <<>> /\ m \in Message /\ m.k = k
  BY ChannelTypes, HeadFacts
<1>2. ChannelRuns(net[v], delivered, calls[Peer(v)], calls[v], Peer(v))
  BY RunsOf1 DEF RunsOK
<1>. QED
  BY <1>1, <1>2, ChannelRunsTail

\* An entry is made for a message that starts no method.
LEMMA EntryRunsMade ==
  ASSUME Inv, Inv', RunsInv, NEW v \in Vat, NEW k \in {"bootstrap", "call"}, Handles(v, k),
         NEW m, m = Head(net[v]), NEW a, a.n = m.n, a.callee.k \notin {"server", "question"},
         a.ok => k = "bootstrap", NEW id,
         NEW A, EntryRuns(A, delivered, calls[Peer(v)], calls[v], Peer(v)),
         answers' = [answers EXCEPT ![v] = Put(A, id, a)],
         NEW ms, Reply(v, ms), ms = <<>> \/ \E r \in Message : r.k \notin {"call", "bootstrap"} /\ ms = <<r>>,
         UNCHANGED <<calls, delivered>>
  PROVE  RunsInv'
<1>1. PICK w \in Vat : w = Peer(v) /\ Peer(w) = v /\ w # v
  BY PeerFacts
<1>2. PICK T, C, K, S : T = delivered /\ C = calls[w] /\ K = calls[v] /\ S = answers'[v]
  OBVIOUS
<1>3. S = Put(A, id, a) /\ answers'[w] = answers[w]
  BY <1>1, <1>2, OfVat
<1>4. EntryRun(a, T, C, K, w)
  <2>1. MessageRun(m, T, C, K, w) /\ m.k = k
    BY <1>1, <1>2, HeadRuns
  <2>2. a.n \in DOMAIN C /\ (k = "bootstrap" => C[a.n].route = "bootstrap")
    BY <2>1 DEF MessageRun
  <2>. QED
    BY <2>2 DEF EntryRun
<1>5. EntryRuns(S, T, C, K, w)
  BY <1>1, <1>2, <1>3, <1>4, EntryRunsPut
<1>6. ReadFrom(net[v], net'[v]) /\ Says(net[w], net'[w])
  BY <1>1, Replied
<1>7. EntryRuns(answers'[v], delivered, calls[Peer(v)], calls[v], Peer(v))
  BY <1>1, <1>2, <1>5
<1>. QED
  BY <1>1, <1>3, <1>6, <1>7, AnswerRuns

LEMMA HandleBootstrapRuns ==
  ASSUME Inv, Inv', RunsInv, NEW v \in Vat, HandleBootstrap(v)
  PROVE  RunsInv'
<1>1. PICK m, A : m = Head(net[v]) /\ A = answers[v]
  OBVIOUS
<1>2. Handles(v, "bootstrap") /\ UNCHANGED <<calls, delivered>>
  BY DEF HandleBootstrap
<1>3. m \in Message /\ m.id \in Nat /\ m.n \in Nat /\ m.id \notin DOMAIN answers[v]
  BY <1>1, <1>2, FreshCall
<1>4. main[v] \in BOOLEAN
  BY OfVat
<1>5. PICK a, r : /\ a = DoneAnswer(NewAnswer(m, NoCallee, NullClient), main[v],
                                   IF main[v] THEN Server(Main) ELSE NullClient)
                  /\ r = ReturnMessage(m.id, m.n, main[v], NoDescriptor)
  OBVIOUS
<1>6. answers' = [answers EXCEPT ![v] = Put(A, m.id, a)] /\ Reply(v, <<r>>)
  BY <1>1, <1>3, <1>4, <1>5 DEF HandleBootstrap
<1>7. a.n = m.n /\ a.callee.k = "none"
  BY <1>5 DEF DoneAnswer, NewAnswer, NoCallee
<1>8. r \in Message /\ r.k = "return"
  <2>1. r = [k |-> "return", id |-> m.id, n |-> m.n, ok |-> main[v], cap |-> [k |-> "none", id |-> 0]]
    BY <1>5 DEF ReturnMessage, NoDescriptor
  <2>. QED
    BY <1>3, <1>4, <2>1 DEF Message, Descriptor
<1>9. EntryRuns(A, delivered, calls[Peer(v)], calls[v], Peer(v))
  BY <1>1, RunsOf1 DEF RunsOK
<1>. QED
  BY <1>1, <1>2, <1>6, <1>7, <1>8, <1>9, EntryRunsMade

LEMMA HandleCallRefusedRuns ==
  ASSUME Inv, Inv', RunsInv, NEW v \in Vat, HandleCallRefused(v)
  PROVE  RunsInv'
<1>1. PICK m, c, A : m = Head(net[v]) /\ c = Param(v, m) /\ A = answers[v]
  OBVIOUS
<1>2. /\ Handles(v, "call") /\ imports' = [imports EXCEPT ![v] = Populated(v, m.cap)]
      /\ UNCHANGED <<calls, delivered>>
  BY <1>1 DEF HandleCallRefused
<1>3. /\ m \in Message /\ m.k = "call" /\ m.id \in Nat /\ m.n \in Nat /\ m.id \notin DOMAIN answers[v]
      /\ Populates(v, m.cap)
  BY <1>1, <1>2, CallRead
<1>4. PICK a, r : a = NewAnswer(m, NoCallee, c) /\ r = [k |-> "unimplemented", id |-> m.id, n |-> m.n]
  OBVIOUS
<1>5. answers' = [answers EXCEPT ![v] = Put(A, m.id, a)] /\ Reply(v, <<r>>)
  BY <1>1, <1>3, <1>4 DEF HandleCallRefused
<1>6. a.n = m.n /\ a.callee.k = "none" /\ ~a.ok
  BY <1>4 DEF NewAnswer, NoCallee
<1>7. r \in Message /\ r.k = "unimplemented"
  BY <1>3, <1>4 DEF Message
<1>8. EntryRuns(A, delivered, calls[Peer(v)], calls[v], Peer(v))
  BY <1>1, RunsOf1 DEF RunsOK
<1>. QED
  BY <1>1, <1>2, <1>5, <1>6, <1>7, <1>8, EntryRunsMade

LEMMA HandleCallRejectedRuns ==
  ASSUME Inv, Inv', RunsInv, NEW v \in Vat, HandleCallRejected(v)
  PROVE  RunsInv'
<1>1. PICK m, A : m = Head(net[v]) /\ A = answers[v]
  OBVIOUS
<1>2. Handles(v, "call") /\ UNCHANGED <<calls, delivered>>
  BY <1>1 DEF HandleCallRejected, Routed
<1>3. m \in Message /\ m.id \in Nat /\ m.n \in Nat
  BY <1>1, <1>2, FreshCall
<1>4. PICK a, r : /\ a = DoneAnswer(NewAnswer(m, NoCallee, Param(v, m)), FALSE, NullClient)
                  /\ r = ReturnMessage(m.id, m.n, FALSE, NoDescriptor)
  OBVIOUS
<1>5. answers' = [answers EXCEPT ![v] = Put(A, m.id, a)] /\ Reply(v, <<r>>)
  BY <1>1, <1>4 DEF HandleCallRejected
<1>6. a.n = m.n /\ a.callee.k = "none" /\ ~a.ok
  BY <1>4 DEF DoneAnswer, NewAnswer, NoCallee
<1>7. r \in Message /\ r.k = "return"
  <2>1. r = [k |-> "return", id |-> m.id, n |-> m.n, ok |-> FALSE, cap |-> [k |-> "none", id |-> 0]]
    BY <1>4 DEF ReturnMessage, NoDescriptor
  <2>. QED
    BY <1>3, <2>1 DEF Message, Descriptor
<1>8. EntryRuns(A, delivered, calls[Peer(v)], calls[v], Peer(v))
  BY <1>1, RunsOf1 DEF RunsOK
<1>. QED
  BY <1>1, <1>2, <1>5, <1>6, <1>7, <1>8, EntryRunsMade

LEMMA HandleCallQueuedRuns ==
  ASSUME Inv, Inv', RunsInv, NEW v \in Vat, HandleCallQueued(v)
  PROVE  RunsInv'
<1>1. PICK m, c, t, id, Q : /\ m = Head(net[v]) /\ c = Param(v, m) /\ t = m.target.id /\ id = m.id
                            /\ Q = answers[v]
  OBVIOUS
<1>2. /\ Handles(v, "call") /\ imports' = [imports EXCEPT ![v] = Populated(v, m.cap)]
      /\ Kind(v, Route(v, m)) \in {"queue"} /\ UNCHANGED <<calls, delivered>> /\ Reply(v, <<>>)
  BY <1>1 DEF HandleCallQueued, Routed
<1>4. t \in DOMAIN Q
  <2>1. PICK r : r = Route(v, m)
    OBVIOUS
  <2>2. r.k = "queue"
    BY <1>2, <2>1 DEF Kind
  <2>3. r \notin Client
    BY <2>2 DEF Client
  <2>. QED
    BY <1>1, <1>2, <2>1, <2>3, CallRead, RouteKnown
<1>5. PICK A, a : A = QueueCall(Q, t, id) /\ a = NewAnswer(m, [k |-> "answer", id |-> Q[t].n], c)
  OBVIOUS
<1>6. answers' = [answers EXCEPT ![v] = Put(A, id, a)]
  <2>1. answers' = [answers EXCEPT ![v] =
          Put(QueueCall(answers[v], Head(net[v]).target.id, Head(net[v]).id), Head(net[v]).id,
              NewAnswer(Head(net[v]), [k |-> "answer", id |-> answers[v][Head(net[v]).target.id].n],
                        Param(v, Head(net[v]))))]
    BY DEF HandleCallQueued
  <2>. QED
    BY <1>1, <1>5, <2>1
<1>7. a.n = m.n /\ a.callee.k = "answer" /\ ~a.ok
  BY <1>5 DEF NewAnswer
<1>8. EntryRuns(A, delivered, calls[Peer(v)], calls[v], Peer(v))
  <2>1. PICK b : b = [Q[t] EXCEPT !.queue = Append(@, id)]
    OBVIOUS
  <2>2. A = [Q EXCEPT ![t] = b]
    BY <1>4, <1>5, <2>1 DEF QueueCall
  <2>3. Q[t] \in AnswerRecord
    BY <1>1, <1>4, EntryKnown
  <2>4. b.n = Q[t].n /\ b.callee = Q[t].callee /\ b.ok = Q[t].ok
    BY <2>1, <2>3 DEF AnswerRecord
  <2>5. EntryRuns(Q, delivered, calls[Peer(v)], calls[v], Peer(v))
    BY <1>1, RunsOf1 DEF RunsOK
  <2>6. PICK T, C, K, w : T = delivered /\ C = calls[Peer(v)] /\ K = calls[v] /\ w = Peer(v)
    OBVIOUS
  <2>7. EntryRuns(A, T, C, K, w)
    BY <1>4, <2>2, <2>4, <2>5, <2>6, EntryRunsSet
  <2>. QED
    BY <2>6, <2>7
<1>. QED
  BY <1>1, <1>2, <1>6, <1>7, <1>8, EntryRunsMade

LEMMA HandleFinishRuns ==
  ASSUME Inv, Inv', RunsInv, NEW v \in Vat, HandleFinish(v)
  PROVE  RunsInv'
<1>1. PICK w \in Vat : w = Peer(v) /\ Peer(w) = v /\ w # v
  BY PeerFacts
<1>2. PICK id : id = Head(net[v]).id
  OBVIOUS
<1>3. /\ Handles(v, "finish") /\ Reply(v, <<>>) /\ UNCHANGED <<calls, delivered>>
      /\ answers' = [answers EXCEPT ![v] = Remove(answers[v], id)]
  BY <1>2 DEF HandleFinish
<1>4. answers'[v] = Remove(answers[v], id) /\ answers'[w] = answers[w]
  BY <1>1, <1>3, OfVat
<1>5. EntryRuns(answers'[v], delivered, calls[Peer(v)], calls[v], Peer(v))
  <2>1. EntryRuns(answers[v], delivered, calls[Peer(v)], calls[v], Peer(v))
    BY RunsOf1 DEF RunsOK
  <2>. QED
    BY <1>4, <2>1, EntryRunsRemoved
<1>6. ReadFrom(net[v], net'[v]) /\ Says(net[Peer(v)], net'[Peer(v)])
  BY <1>3, Replied
<1>. QED
  BY <1>1, <1>3, <1>4, <1>5, <1>6, AnswerRuns

LEMMA HandleUnimplementedRuns ==
  ASSUME Inv, Inv', RunsInv, NEW v \in Vat, HandleUnimplemented(v)
  PROVE  RunsInv'
<1>1. Handles(v, "unimplemented") /\ Reply(v, <<>>) /\ UNCHANGED <<calls, answers, delivered>>
  BY DEF HandleUnimplemented, tables
<1>2. EntryRuns(answers'[v], delivered, calls[Peer(v)], calls[v], Peer(v))
  BY <1>1, RunsOf1 DEF RunsOK
<1>3. ReadFrom(net[v], net'[v]) /\ Says(net[Peer(v)], net'[Peer(v)])
  BY <1>1, Replied
<1>. QED
  BY <1>1, <1>2, <1>3, AnswerRuns

\* Results that arrive are those of an entry, whose call ran.
LEMMA HandleReturnRuns ==
  ASSUME Inv, Inv', RunsInv, NEW v \in Vat, HandleReturn(v)
  PROVE  RunsInv'
<1>1. PICK m : m = Head(net[v])
  OBVIOUS
<1>2. PICK n : n = questions[v][m.id]
  OBVIOUS
<1>3. /\ m \in Message /\ m.k = "return" /\ m.id \in DOMAIN questions[v]
      /\ n \in Nat \ {0} /\ n \in DOMAIN calls[v]
      /\ FindQuestion(v, m.id) = n /\ Populates(v, m.cap)
  BY <1>1, <1>2, ReturningSteps
<1>4. m.ok \in BOOLEAN /\ m.id \in Nat
  BY <1>3, MessageKind
<1>5. PICK f : f = [k |-> "finish", id |-> m.id, releaseResultCaps |-> ~m.ok]
  OBVIOUS
<1>6. PICK s, c : s = (IF m.ok THEN "results" ELSE "exception") /\ c = ClientFor(v, m.cap, -n)
  OBVIOUS
<1>7. /\ calls' = [calls EXCEPT ![v][n].state = s, ![v][n].cap = c]
      /\ Handles(v, "return") /\ Reply(v, <<f>>) /\ UNCHANGED <<answers, delivered>>
  BY <1>1, <1>3, <1>5, <1>6 DEF HandleReturn
<1>8. calls[v][n] \in CallRecord /\ DOMAIN calls = Vat
  BY <1>3, OfVat, CallTypes
<1>9. PICK r : r = [[calls[v][n] EXCEPT !.state = s] EXCEPT !.cap = c]
  OBVIOUS
<1>10. calls' = [calls EXCEPT ![v] = [calls[v] EXCEPT ![n] = r]]
  BY <1>7, <1>8, <1>9
<1>11. r.on = calls[v][n].on /\ r.route = calls[v][n].route /\ r.state = s
  BY <1>8, <1>9 DEF CallRecord
<1>12. f \in Message /\ f.k = "finish"
  BY <1>4, <1>5 DEF Message
<1>13. ReadFrom(net[v], net'[v]) /\ Says(net[Peer(v)], net'[Peer(v)])
  BY <1>7, <1>12, Replied
<1>14. ASSUME s \in {"results", "dropped"}, r.route # "bootstrap"
       PROVE  Ran(delivered, calls[Peer(v)], v, n)
  <2>1. m.ok = TRUE
    BY <1>4, <1>6, <1>14
  <2>2. Sound(v) /\ net[v] \in Seq(Message) /\ net[v] # <<>>
    BY <1>7, HeadFacts, ChannelTypes DEF Inv
  <2>3. Decided(v)[n] = Word(m.ok)
    BY <1>1, <1>2, <1>3, <2>2, ReturnFacts
  <2>4. DecidedFor(v, n) = "results"
    BY <1>3, <2>1, <2>3 DEF Decided, Word
  <2>5. CASE SettledWith(v, n) # "none"
    <3>1. SettledWith(v, n) = "results"
      BY <2>4, <2>5 DEF DecidedFor
    <3>2. calls[v][n].state \notin {"waiting", "exception"}
      BY <3>1 DEF SettledWith, Settled
    <3>3. calls[v][n].state \in {"results", "dropped"}
      BY <1>8, <3>2 DEF CallRecord
    <3>4. CallRun(calls[v][n], n, delivered, calls[Peer(v)], v)
      BY <1>3, RunsOf1 DEF RunsOK, CallRuns
    <3>. QED
      BY <1>11, <1>14, <3>3, <3>4 DEF CallRun
  <2>6. CASE SettledWith(v, n) = "none"
    <3>1. Answered(v, n, TRUE)
      BY <2>4, <2>6 DEF DecidedFor
    <3>2. PICK id \in DOMAIN answers[Peer(v)] : answers[Peer(v)][id].n = n /\ answers[Peer(v)][id].ok = TRUE
      BY <3>1 DEF Answered
    <3>3. EntryRun(answers[Peer(v)][id], delivered, calls[v], calls[Peer(v)], v)
      BY RunsOf1 DEF RunsOK, EntryRuns
    <3>. QED
      BY <1>11, <1>14, <3>2, <3>3 DEF EntryRun
  <2>. QED
    BY <2>5, <2>6
<1>15. r.state \in {"results", "dropped"} /\ r.route # "bootstrap"
       => Ran(delivered, calls[Peer(v)], v, n)
  BY <1>11, <1>14
<1>16. n \in DOMAIN calls[v] /\ delivered' = delivered /\ answers' = answers
  BY <1>3, <1>7
<1>. QED
  BY <1>10, <1>11, <1>13, <1>15, <1>16, CallEndsRuns

-----------------------------------------------------------------------------
(* Steps that start a method, or make a call. *)

\* The log has one more run, of call n of u.
Starts1(T, T2, u, n) ==
  /\ T \in Seq([at : Vat, object : Object, from : Vat, n : Nat])
  /\ \E d : d.from = u /\ d.n = n /\ T2 = Append(T, d)

LEMMA StartedRun ==
  ASSUME NEW T, NEW T2, NEW u, NEW n, Starts1(T, T2, u, n)
  PROVE  /\ Extends(T, T2) /\ RunHere(T2, u, n)
         /\ \A v, k : RunHere(T2, v, k) => RunHere(T, v, k) \/ (v = u /\ k = n)
         /\ \A v, C : Logged(T, v, C) /\ (v = u => n \in DOMAIN C) => Logged(T2, v, C)
         /\ LogOnce(T) /\ ~RunHere(T, u, n) => LogOnce(T2)
<1>1. PICK d : d.from = u /\ d.n = n /\ T2 = Append(T, d)
  BY DEF Starts1
<1>2. /\ DOMAIN T2 = DOMAIN T \cup {Len(T) + 1} /\ T2[Len(T) + 1] = d /\ Len(T) + 1 \notin DOMAIN T
      /\ \A i \in DOMAIN T : T2[i] = T[i]
  BY <1>1 DEF Starts1
<1>3. Extends(T, T2) /\ RunHere(T2, u, n)
  BY <1>1, <1>2 DEF Extends, RunHere
<1>4. \A v, k : RunHere(T2, v, k) => RunHere(T, v, k) \/ (v = u /\ k = n)
  BY <1>1, <1>2 DEF RunHere
<1>5. \A v, C : Logged(T, v, C) /\ (v = u => n \in DOMAIN C) => Logged(T2, v, C)
  BY <1>1, <1>2 DEF Logged
<1>6. LogOnce(T) /\ ~RunHere(T, u, n) => LogOnce(T2)
  BY <1>1, <1>2 DEF LogOnce, RunHere
<1>. QED
  BY <1>3, <1>4, <1>5, <1>6

\* A Call that is read starts a method.
LEMMA HandleCallDeliveredRuns ==
  ASSUME Inv, Inv', RunsInv, NEW v \in Vat, HandleCallDelivered(v)
  PROVE  RunsInv'
<1>1. PICK w \in Vat : w = Peer(v) /\ Peer(w) = v /\ w # v
  BY PeerFacts
<1>2. PICK m, callee : m = Head(net[v]) /\ callee = [k |-> "server", id |-> ObjectOf(v, Route(v, m))]
  OBVIOUS
<1>3. PICK a, d : /\ a = NewAnswer(m, callee, Param(v, m))
                  /\ d = [at |-> v, object |-> callee.id, from |-> w, n |-> m.n]
  OBVIOUS
<1>4. /\ Handles(v, "call") /\ calls' = calls /\ Reply(v, <<>>)
      /\ answers' = [answers EXCEPT ![v] = Put(answers[v], m.id, a)]
      /\ delivered' = Append(delivered, d)
  BY <1>1, <1>2, <1>3 DEF HandleCallDelivered, Routed
<1>5. PICK T, T2, C, K : T = delivered /\ T2 = delivered' /\ C = calls[v] /\ K = calls[w]
  OBVIOUS
<1>6. PICK s, t2, A, A2 : s = net[w] /\ t2 = Tail(net[v]) /\ A = answers[w] /\ A2 = answers'[v]
  OBVIOUS
<1>7. /\ net'[w] = s /\ net'[v] = t2
      /\ A2 = Put(answers[v], m.id, a) /\ answers'[w] = A
  BY <1>1, <1>4, <1>6, WhenRead, OfVat
<1>8. /\ RunsOK(T, C, K, s, A, v) /\ RunsOK(T, K, C, net[v], answers[v], w) /\ LogOnce(T)
  BY <1>1, <1>5, <1>6, RunsOf1
<1>9. /\ MessageRun(m, T, K, C, w) /\ m.k = "call" /\ ChannelRuns(t2, T, K, C, w)
      /\ \A j \in DOMAIN t2 : t2[j].k = "call" => t2[j].n # m.n
  BY <1>1, <1>2, <1>4, <1>5, <1>6, HeadRuns
<1>10. PICK n : n = m.n
  OBVIOUS
<1>11. Unrun(T, C, w, n) /\ n \in DOMAIN K
  BY <1>9, <1>10 DEF MessageRun
<1>12. Starts1(T, T2, w, n)
  <2>1. d.from = w /\ d.n = n /\ T2 = Append(T, d)
    BY <1>3, <1>4, <1>5, <1>10
  <2>2. T \in Seq([at : Vat, object : Object, from : Vat, n : Nat])
    BY <1>5, OfVat
  <2>. QED
    BY <2>1, <2>2 DEF Starts1
<1>13. /\ Extends(T, T2) /\ RunHere(T2, w, n) /\ Grows(C, C) /\ Grows(K, K)
       /\ \A u, k : RunHere(T2, u, k) => RunHere(T, u, k) \/ (u = w /\ k = n)
       /\ Logged(T2, v, C) /\ Logged(T2, w, K) /\ LogOnce(T2)
  <2>1. ~RunHere(T, w, n)
    BY <1>11 DEF Unrun
  <2>2. Logged(T, v, C) /\ Logged(T, w, K)
    BY <1>8 DEF RunsOK
  <2>. QED
    BY <1>1, <1>8, <1>11, <1>12, <2>1, <2>2, StartedRun, Alike
<1>14. RunsOK(T2, C, K, s, A, v)
  <2>1. ChannelRuns(s, T2, C, K, v)
    <3>1. StillUnrun(T, T2, K, K, v, s)
      BY <1>1, <1>13 DEF StillUnrun, Unrun
    <3>. QED
      BY <1>8, <1>13, <3>1, ChannelRunsStay DEF RunsOK
  <2>2. EntryRuns(A, T2, C, K, v)
    <3>1. AnswersOK(A, K, exports[w], imports[w])
      BY <1>5, <1>6, OfVat DEF VatOK
    <3>2. \A id \in DOMAIN A : A[id].callee.k = "question" => A[id].callee.id \in DOMAIN K
      BY <3>1 DEF AnswersOK, EntryOK
    <3>. QED
      BY <1>8, <1>13, <3>2, EntryRunsStay DEF RunsOK
  <2>3. CallRuns(T2, C, K, v)
    <3>1. CallRuns(T, C, K, v)
      BY <1>8 DEF RunsOK
    <3>2. StillForwarded(C, T2, v)
      <4> SUFFICES ASSUME NEW f \in DOMAIN C, C[f].on.k = "answer", RunHere(T2, w, C[f].on.n) PROVE FALSE
        BY <1>1 DEF StillForwarded
      <4>1. ~RunHere(T, w, C[f].on.n)
        BY <1>1, <3>1 DEF CallRuns, CallRun
      <4>2. C[f].on.n = n
        BY <1>13, <4>1
      <4>3. C[f].on \in Origin
        BY <1>5, CallTypes DEF CallRecord
      <4>4. Forwarding(C[f], n)
        BY <4>2, <4>3 DEF Origin, Forwarding
      <4>. QED
        BY <1>11, <4>4 DEF Unrun
    <3>. QED
      BY <1>13, <3>1, <3>2, CallRunsStay
  <2>. QED
    BY <1>13, <2>1, <2>2, <2>3 DEF RunsOK
<1>15. RunsOK(T2, K, C, t2, A2, w)
  <2>1. ChannelRuns(t2, T2, K, C, w)
    <3>1. StillUnrun(T, T2, C, C, w, t2)
      BY <1>9, <1>10, <1>13 DEF StillUnrun, Unrun
    <3>. QED
      BY <1>9, <1>13, <3>1, ChannelRunsStay
  <2>2. EntryRuns(A2, T2, K, C, w)
    <3>1. AnswersOK(answers[v], C, exports[v], imports[v])
      BY <1>5, OfVat DEF VatOK
    <3>2. \A id \in DOMAIN answers[v] : answers[v][id].callee.k = "question" =>
            answers[v][id].callee.id \in DOMAIN C
      BY <3>1 DEF AnswersOK, EntryOK
    <3>3. EntryRuns(answers[v], T2, K, C, w)
      BY <1>8, <1>13, <3>2, EntryRunsStay DEF RunsOK
    <3>4. EntryRun(a, T2, K, C, w)
      <4>1. a.n = n /\ a.callee.k = "server" /\ ~a.ok
        BY <1>2, <1>3, <1>10 DEF NewAnswer
      <4>2. Ran(T2, C, w, n)
        BY <1>13 DEF Ran
      <4>. QED
        BY <1>11, <4>1, <4>2 DEF EntryRun
    <3>. QED
      BY <1>7, <3>3, <3>4, EntryRunsPut
  <2>3. CallRuns(T2, K, C, w)
    <3>1. CallRuns(T, K, C, w)
      BY <1>8 DEF RunsOK
    <3>2. StillForwarded(K, T2, w)
      <4> SUFFICES ASSUME NEW f \in DOMAIN K, K[f].on.k = "answer", RunHere(T2, v, K[f].on.n) PROVE FALSE
        BY <1>1 DEF StillForwarded
      <4>1. ~RunHere(T, v, K[f].on.n)
        BY <1>1, <3>1 DEF CallRuns, CallRun
      <4>. QED
        BY <1>1, <1>13, <4>1
    <3>. QED
      BY <1>13, <3>1, <3>2, CallRunsStay
  <2>. QED
    BY <1>13, <2>1, <2>2, <2>3 DEF RunsOK
<1>16. calls'[v] = C /\ calls'[w] = K
  BY <1>4, <1>5
<1>17. LogOnce(delivered')
  BY <1>5, <1>13
<1>18. RunsOK(delivered', calls'[v], calls'[Peer(v)], net'[Peer(v)], answers'[Peer(v)], v)
  BY <1>1, <1>5, <1>7, <1>14, <1>16
<1>19. RunsOK(delivered', calls'[Peer(v)], calls'[v], net'[v], answers'[v], Peer(v))
  BY <1>1, <1>5, <1>6, <1>7, <1>15, <1>16
<1>. QED
  BY <1>17, <1>18, <1>19, RunsNext

\* The k-th call of v is made, r, which starts a method or sends a message, if it
\* does either.
RanAtOnce(T, T2, v, k) == T2 = T \/ Starts1(T, T2, v, k)
SentOff(s, s2, T, T2, k, r) ==
  \/ s2 = s
  \/ /\ T2 = T
     /\ \E m \in Message : /\ m.k \in {"call", "bootstrap"} /\ m.n = k /\ s2 = s \o <<m>>
                           /\ m.k = "bootstrap" => r.route = "bootstrap"
                           /\ m.k = "call" /\ r.route = "forward" => m.target.k = "importedCap"
\* It forwards a call of w that did not run yet, if it forwards one.
Forwards(r, T, T2, C, w, t) ==
  r.on.k = "answer" => /\ T2 = T
                       /\ \E n : /\ r.on = [k |-> "answer", n |-> n] /\ Unrun(T, C, w, n)
                                 /\ \A j \in DOMAIN t : t[j].k = "call" => t[j].n # n

Longer(C, B, k, r) == /\ Grows(C, B) /\ DOMAIN B = DOMAIN C \cup {k} /\ k \notin DOMAIN C /\ B[k] = r
                      /\ \A n \in DOMAIN C : B[n] = C[n]

LEMMA CallGrows ==
  ASSUME NEW C \in Seq(CallRecord), NEW r, NEW B, B = Append(C, r), NEW k, k = Len(C) + 1
  PROVE  Longer(C, B, k, r)
<1>1. DOMAIN B = DOMAIN C \cup {k} /\ k \notin DOMAIN C /\ B[k] = r /\ \A n \in DOMAIN C : B[n] = C[n]
  OBVIOUS
<1>. QED
  BY <1>1 DEF Grows, Longer

LEMMA NotYet ==
  ASSUME NEW T, NEW C, NEW K, NEW s, NEW A, NEW v \in Vat, RunsOK(T, C, K, s, A, v),
         CallRuns(T, K, C, Peer(v)), NEW k, k \notin DOMAIN C
  PROVE  Unrun(T, K, v, k) /\ \A j \in DOMAIN s : s[j].k = "call" => s[j].n # k
<1>1. ~RunHere(T, v, k)
  BY DEF RunsOK, Logged, RunHere
<1>2. ASSUME NEW f \in DOMAIN K, Forwarding(K[f], k) PROVE FALSE
  <2>1. K[f].on.k = "answer" /\ K[f].on.n = k
    BY <1>2 DEF Forwarding
  <2>2. CallRun(K[f], f, T, C, Peer(v))
    BY DEF CallRuns
  <2>. QED
    BY <2>1, <2>2 DEF CallRun
<1>3. ASSUME NEW j \in DOMAIN s, s[j].k = "call", s[j].n = k PROVE FALSE
  <2>1. MessageRun(s[j], T, C, K, v)
    BY DEF RunsOK, ChannelRuns
  <2>. QED
    BY <1>3, <2>1 DEF MessageRun
<1>. QED
  BY <1>1, <1>2, <1>3 DEF Unrun

LEMMA MadeByCaller ==
  ASSUME NEW T, NEW T2, NEW C, NEW K, NEW s \in Seq(Message), NEW A,
         NEW v \in Vat, RunsOK(T, C, K, s, A, v), CallRuns(T, K, C, Peer(v)),
         \A id \in DOMAIN A : A[id].callee.k = "question" => A[id].callee.id \in DOMAIN K,
         NEW k, RanAtOnce(T, T2, v, k),
         NEW r, CallRun(r, k, T2, K, v), NEW B, Longer(C, B, k, r),
         NEW s2, SentOff(s, s2, T, T2, k, r),
         NEW t, Forwards(r, T, T2, C, Peer(v), t)
  PROVE  RunsOK(T2, B, K, s2, A, v)
<1>1. PICK w \in Vat : w = Peer(v) /\ Peer(w) = v /\ w # v
  BY PeerFacts
<1>2. /\ Grows(C, B) /\ DOMAIN B = DOMAIN C \cup {k} /\ k \notin DOMAIN C /\ B[k] = r
      /\ \A n \in DOMAIN C : B[n] = C[n]
  BY DEF Longer
<1>3. Unrun(T, K, v, k) /\ \A j \in DOMAIN s : s[j].k = "call" => s[j].n # k
  BY <1>2, NotYet
<1>4. /\ Extends(T, T2) /\ Grows(K, K)
      /\ \A u, n : RunHere(T2, u, n) => RunHere(T, u, n) \/ (u = v /\ n = k)
      /\ Logged(T, v, B) => Logged(T2, v, B)
  <2>1. CASE T2 = T
    BY <2>1, Alike
  <2>2. CASE Starts1(T, T2, v, k)
    BY <1>2, <2>2, StartedRun, Alike
  <2>. QED
    BY <2>1, <2>2 DEF RanAtOnce
<1>5. Logged(T2, v, B)
  BY <1>2, <1>4 DEF RunsOK, Logged, Grows
<1>6. ChannelRuns(s, T2, B, K, v)
  <2>1. StillUnrun(T, T2, K, K, v, s)
    BY <1>3, <1>4 DEF StillUnrun, Unrun
  <2>. QED
    BY <1>2, <2>1, ChannelRunsStay DEF RunsOK
<1>7. ChannelRuns(s2, T2, B, K, v)
  <2>1. CASE s2 = s
    BY <1>6, <2>1
  <2>2. ASSUME T2 = T, NEW m \in Message, m.k \in {"call", "bootstrap"}, m.n = k, s2 = s \o <<m>>,
               m.k = "bootstrap" => r.route = "bootstrap",
               m.k = "call" /\ r.route = "forward" => m.target.k = "importedCap"
        PROVE  ChannelRuns(s2, T2, B, K, v)
    <3>1. MessageRun(m, T2, B, K, v)
      BY <1>2, <1>3, <2>2 DEF MessageRun
    <3>2. m.k = "call" => \A j \in DOMAIN s : s[j].k = "call" => s[j].n # m.n
      BY <1>3, <2>2
    <3>. QED
      BY <1>6, <2>2, <3>1, <3>2, ChannelRunsSent
  <2>. QED
    BY <2>1, <2>2 DEF SentOff
<1>8. EntryRuns(A, T2, B, K, v)
  BY <1>2, <1>4, EntryRunsStay DEF RunsOK
<1>9. CallRuns(T2, B, K, v)
  <2>1. CallRuns(T, C, K, v)
    BY DEF RunsOK
  <2>2. StillForwarded(C, T2, v)
    BY <1>1, <1>4, <2>1, ForwardedStill DEF StillForwarded
  <2>3. CallRuns(T2, C, K, v)
    BY <1>4, <2>1, <2>2, CallRunsStay
  <2>4. \A n \in DOMAIN B : CallRun(B[n], n, T2, K, v)
    BY <1>2, <2>3 DEF CallRuns
  <2>5. ASSUME NEW n \in DOMAIN C, C[n].on = r.on, r.on.k = "answer" PROVE FALSE
    BY <2>5 DEF Forwards, Unrun, Forwarding
  <2>. QED
    BY <1>2, <2>3, <2>4, <2>5 DEF CallRuns
<1>. QED
  BY <1>5, <1>7, <1>8, <1>9 DEF RunsOK

LEMMA MadeByPeer ==
  ASSUME NEW T, NEW T2, NEW C, NEW K, NEW v \in Vat, NEW w, w = Peer(v),
         Logged(T, w, K), CallRuns(T, K, C, w),
         NEW k, RanAtOnce(T, T2, v, k),
         NEW r, NEW B, Longer(C, B, k, r),
         NEW t2, ChannelRuns(t2, T, K, C, w), Forwards(r, T, T2, C, w, t2),
         NEW A2, EntryRuns(A2, T2, K, B, w)
  PROVE  RunsOK(T2, K, B, t2, A2, w)
<1>1. w \in Vat /\ Peer(w) = v /\ w # v
  BY PeerFacts
<1>2. /\ Grows(C, B) /\ DOMAIN B = DOMAIN C \cup {k} /\ k \notin DOMAIN C /\ B[k] = r
      /\ \A n \in DOMAIN C : B[n] = C[n]
  BY DEF Longer
<1>3. /\ Extends(T, T2) /\ Grows(K, K)
      /\ \A u, n : RunHere(T2, u, n) => RunHere(T, u, n) \/ (u = v /\ n = k)
      /\ Logged(T2, w, K)
  BY <1>1, StartedRun, Alike DEF RanAtOnce
<1>4. ChannelRuns(t2, T2, K, B, w)
  <2>1. StillUnrun(T, T2, C, B, w, t2)
    <3> SUFFICES ASSUME NEW j \in DOMAIN t2, t2[j].k = "call", Unrun(T, C, w, t2[j].n),
                        NEW f \in DOMAIN B, Forwarding(B[f], t2[j].n)
                 PROVE  FALSE
      BY <1>1, <1>3 DEF StillUnrun, Unrun
    <3>1. f = k
      BY <1>2 DEF Unrun, Forwarding
    <3>2. r.on = [k |-> "answer", n |-> t2[j].n]
      BY <1>2, <3>1 DEF Forwarding
    <3>3. r.on.k = "answer" /\ r.on.n = t2[j].n
      BY <3>2
    <3>4. PICK n : r.on = [k |-> "answer", n |-> n] /\ \A i \in DOMAIN t2 : t2[i].k = "call" => t2[i].n # n
      BY <3>3 DEF Forwards
    <3>5. r.on.n = n
      BY <3>4
    <3>. QED
      BY <3>3, <3>4, <3>5
  <2>. QED
    BY <1>3, <2>1, ChannelRunsStay
<1>5. CallRuns(T2, K, B, w)
  <2>1. StillForwarded(K, T2, w)
    <3> SUFFICES ASSUME NEW f \in DOMAIN K, K[f].on.k = "answer", RunHere(T2, v, K[f].on.n) PROVE FALSE
      BY <1>1 DEF StillForwarded
    <3>1. CallRun(K[f], f, T, C, w)
      BY DEF CallRuns
    <3>2. ~RunHere(T, v, K[f].on.n) /\ K[f].on.n # k
      BY <1>1, <1>2, <3>1 DEF CallRun
    <3>. QED
      BY <1>3, <3>2
  <2>. QED
    BY <1>2, <1>3, <2>1, CallRunsStay
<1>. QED
  BY <1>3, <1>4, <1>5 DEF RunsOK

\* A step in which v makes a call.
LEMMA MadeRuns ==
  ASSUME Inv, Inv', RunsInv, NEW v \in Vat, NEW k, k = Len(calls[v]) + 1, NEW r,
         calls'[v] = Append(calls[v], r), calls'[Peer(v)] = calls[Peer(v)],
         RanAtOnce(delivered, delivered', v, k),
         CallRun(r, k, delivered', calls[Peer(v)], v),
         SentOff(net[Peer(v)], net'[Peer(v)], delivered, delivered', k, r), ReadFrom(net[v], net'[v]),
         Forwards(r, delivered, delivered', calls[v], Peer(v), net'[v]),
         answers'[Peer(v)] = answers[Peer(v)],
         EntryRuns(answers'[v], delivered', calls[Peer(v)], calls'[v], Peer(v))
  PROVE  RunsInv'
<1>1. PICK w \in Vat : w = Peer(v) /\ Peer(w) = v
  BY PeerFacts
<1>2. PICK T, T2, C, B, K : T = delivered /\ T2 = delivered' /\ C = calls[v] /\ B = calls'[v] /\ K = calls[w]
  OBVIOUS
<1>3. PICK s, s2, t, t2, A, A2 : /\ s = net[w] /\ s2 = net'[w] /\ t = net[v] /\ t2 = net'[v]
                                 /\ A = answers[w] /\ A2 = answers'[v]
  OBVIOUS
<1>4. RunsOK(T, C, K, s, A, v) /\ RunsOK(T, K, C, t, answers[v], w) /\ LogOnce(T)
  BY <1>1, <1>2, <1>3, RunsOf1
<1>5. Logged(T, w, K) /\ CallRuns(T, K, C, w) /\ ChannelRuns(t, T, K, C, w)
  BY <1>4 DEF RunsOK
<1>6. s \in Seq(Message) /\ t \in Seq(Message) /\ C \in Seq(CallRecord)
  BY <1>1, <1>2, <1>3, ChannelTypes, CallTypes
<1>7. ChannelRuns(t2, T, K, C, w)
  <2>1. ReadFrom(t, t2)
    BY <1>3
  <2>. QED
    BY <1>5, <1>6, <2>1, ChannelRunsTail DEF ReadFrom
<1>8. Longer(C, B, k, r)
  <2>1. B = Append(C, r) /\ k = Len(C) + 1
    BY <1>2
  <2>. QED
    BY <1>6, <2>1, CallGrows
<1>9. RanAtOnce(T, T2, v, k) /\ CallRun(r, k, T2, K, v)
  BY <1>1, <1>2
<1>10. SentOff(s, s2, T, T2, k, r) /\ Forwards(r, T, T2, C, w, t2)
  BY <1>1, <1>2, <1>3
<1>11. \A id \in DOMAIN A : A[id].callee.k = "question" => A[id].callee.id \in DOMAIN K
  <2>1. AnswersOK(A, K, exports[w], imports[w])
    BY <1>1, <1>2, <1>3, OfVat DEF VatOK
  <2>. QED
    BY <2>1 DEF AnswersOK, EntryOK
<1>12. RunsOK(T2, B, K, s2, A, v)
  <2>1. CallRuns(T, K, C, Peer(v)) /\ Forwards(r, T, T2, C, Peer(v), t2)
    BY <1>1, <1>5, <1>10
  <2>. QED
    BY <1>4, <1>6, <1>8, <1>9, <1>10, <1>11, <2>1, MadeByCaller
<1>13. RunsOK(T2, K, B, t2, A2, w)
  <2>1. EntryRuns(A2, T2, K, B, w)
    BY <1>1, <1>2, <1>3
  <2>. QED
    BY <1>1, <1>5, <1>7, <1>8, <1>9, <1>10, <2>1, MadeByPeer
<1>14. LogOnce(T2)
  <2>1. ~RunHere(T, v, k)
    BY <1>4, <1>8 DEF RunsOK, Logged, RunHere, Longer
  <2>. QED
    BY <1>4, <1>9, <2>1, StartedRun DEF RanAtOnce
<1>15. LogOnce(delivered')
  BY <1>2, <1>14
<1>16. RunsOK(delivered', calls'[v], calls'[Peer(v)], net'[Peer(v)], answers'[Peer(v)], v)
  BY <1>1, <1>2, <1>3, <1>12
<1>17. RunsOK(delivered', calls'[Peer(v)], calls'[v], net'[v], answers'[v], Peer(v))
  BY <1>1, <1>2, <1>3, <1>13
<1>. QED
  BY <1>15, <1>16, <1>17, RunsNext

\* It is the application that makes the call.
LEMMA AppMadeRuns ==
  ASSUME Inv, Inv', RunsInv, NEW v \in Vat, NEW k, k = Len(calls[v]) + 1, NEW r,
         calls' = [calls EXCEPT ![v] = Append(calls[v], r)],
         RanAtOnce(delivered, delivered', v, k),
         CallRun(r, k, delivered', calls[Peer(v)], v), r.on.k # "answer",
         SentOff(net[Peer(v)], net'[Peer(v)], delivered, delivered', k, r), net'[v] = net[v],
         answers' = answers
  PROVE  RunsInv'
<1>1. PICK w \in Vat : w = Peer(v) /\ Peer(w) = v /\ w # v
  BY PeerFacts
<1>2. calls'[v] = Append(calls[v], r) /\ calls'[w] = calls[w]
  BY <1>1, OfVat
<1>3. ReadFrom(net[v], net'[v]) /\ Forwards(r, delivered, delivered', calls[v], Peer(v), net'[v])
  BY DEF ReadFrom, Forwards
<1>4. EntryRuns(answers'[v], delivered', calls[Peer(v)], calls'[v], Peer(v))
  <2>1. PICK T, T2, C, B, K, A : /\ T = delivered /\ T2 = delivered' /\ C = calls[v] /\ B = calls'[v]
                                 /\ K = calls[w] /\ A = answers[v]
    OBVIOUS
  <2>2. EntryRuns(A, T, K, C, w)
    BY <1>1, <2>1, RunsOf1 DEF RunsOK
  <2>3. Grows(C, B) /\ k \notin DOMAIN C
    <3>1. C \in Seq(CallRecord) /\ B = Append(C, r) /\ k = Len(C) + 1
      BY <1>2, <2>1, CallTypes
    <3>. QED
      BY <3>1, CallGrows DEF Longer
  <2>4. Extends(T, T2) /\ Grows(K, K)
    <3>1. RanAtOnce(T, T2, v, k)
      BY <2>1
    <3>. QED
      BY <3>1, StartedRun, Alike DEF RanAtOnce
  <2>5. \A id \in DOMAIN A : A[id].callee.k = "question" => A[id].callee.id \in DOMAIN C
    <3>1. AnswersOK(A, C, exports[v], imports[v])
      BY <2>1, OfVat DEF VatOK
    <3>. QED
      BY <3>1 DEF AnswersOK, EntryOK
  <2>6. EntryRuns(A, T2, K, B, w)
    BY <2>2, <2>3, <2>4, <2>5, EntryRunsStay
  <2>. QED
    BY <1>1, <2>1, <2>6
<1>. QED
  BY <1>1, <1>2, <1>3, <1>4, MadeRuns

\* A call that is sent has not run.
LEMMA SentRuns ==
  ASSUME Inv, Inv', RunsInv, NEW v \in Vat, NEW on \in Origin, on.k # "answer",
         NEW route \in {"bootstrap", "promised", "imported"}, NewQuestion(v, on, route),
         NEW m \in Message, m.k = "call" \/ (m.k = "bootstrap" /\ route = "bootstrap"),
         m.n = Len(calls[v]) + 1, Send(v, <<m>>), UNCHANGED <<answers, delivered>>
  PROVE  RunsInv'
<1>1. PICK k : k = Len(calls[v]) + 1
  OBVIOUS
<1>2. PICK r : r = [id |-> IdNext(questionID[v]), on |-> on, route |-> route,
                    state |-> "waiting", cap |-> NullClient]
  OBVIOUS
<1>3. calls' = [calls EXCEPT ![v] = Append(calls[v], r)]
  BY <1>2 DEF NewQuestion
<1>4. r.on = on /\ r.route = route /\ r.state = "waiting"
  BY <1>2
<1>5. net'[v] = net[v] /\ net'[Peer(v)] = net[Peer(v)] \o <<m>>
  BY WhenSent
<1>6. CallRun(r, k, delivered', calls[Peer(v)], v)
  BY <1>4 DEF CallRun
<1>7. SentOff(net[Peer(v)], net'[Peer(v)], delivered, delivered', k, r)
  BY <1>1, <1>4, <1>5 DEF SentOff
<1>8. RanAtOnce(delivered, delivered', v, k)
  BY DEF RanAtOnce
<1>9. r.on.k # "answer" /\ answers' = answers
  BY <1>4
<1>. QED
  BY <1>1, <1>3, <1>5, <1>6, <1>7, <1>8, <1>9, AppMadeRuns

LEMMA BootstrapRuns ==
  ASSUME Inv, Inv', RunsInv, NEW v \in Vat, Bootstrap(v)
  PROVE  RunsInv'
<1>1. PICK m : m = [k |-> "bootstrap", id |-> IdNext(questionID[v]), n |-> Len(calls[v]) + 1]
  OBVIOUS
<1>2. NewQuestion(v, NoOrigin, "bootstrap") /\ Send(v, <<m>>) /\ UNCHANGED <<answers, delivered>>
  BY <1>1 DEF Bootstrap
<1>3. NoOrigin \in Origin /\ NoOrigin.k # "answer" /\ "bootstrap" \in Routes
  BY DEF NoOrigin, Origin, Routes
<1>4. IdNext(questionID[v]) \in Nat /\ Len(calls[v]) + 1 \in Nat
  BY <1>2, <1>3, NewQuestionOK
<1>5. m \in Message /\ m.k = "bootstrap" /\ m.n = Len(calls[v]) + 1
  BY <1>1, <1>4 DEF Message
<1>. QED
  BY <1>2, <1>3, <1>5, SentRuns

LEMMA AskRuns ==
  ASSUME Inv, Inv', RunsInv, NEW v \in Vat, NEW on \in Origin, on.k # "answer",
         NEW route \in {"promised", "imported"}, NEW target \in Target, NEW method \in Method,
         NEW arg \in Client, Known(arg, exports[v], imports[v]), Ask(v, on, route, target, method, arg)
  PROVE  RunsInv'
<1>1. PICK m : m = CallMessage(v, target, method, arg)
  OBVIOUS
<1>2. NewQuestion(v, on, route) /\ Send(v, <<m>>) /\ UNCHANGED <<answers, delivered>>
  BY <1>1 DEF Ask
<1>3. IdNext(questionID[v]) \in Nat /\ Len(calls[v]) + 1 \in Nat
  <2>1. route \in Routes
    BY DEF Routes
  <2>. QED
    BY <1>2, <2>1, NewQuestionOK
<1>4. m \in Message /\ m.k = "call" /\ m.n = Len(calls[v]) + 1
  <2>1. PICK d : d = DescriptorFor(v, arg)
    OBVIOUS
  <2>2. d \in Descriptor /\ (d.k = "receiverHosted" => d.id \in DOMAIN exports[Peer(v)])
    BY <2>1, DescribedOK
  <2>. QED
    BY <1>1, <1>3, <2>1, <2>2, CallMessageFits DEF Fits
<1>. QED
  BY <1>2, <1>4, SentRuns

\* A call that stays in the vat runs at once, or fails.
LEMMA CallHereRuns ==
  ASSUME Inv, Inv', RunsInv, NEW v \in Vat, NEW on \in Origin, on.k # "answer", NEW c, CallHere(v, on, c)
  PROVE  RunsInv'
<1> DEFINE here(route, state) == [id |-> NoId, on |-> on, route |-> route,
                                  state |-> state, cap |-> NullClient]
<1>1. PICK k, r : /\ k = Len(calls[v]) + 1
                  /\ r = IF ObjectOf(v, c) = NoId THEN here("error", "exception") ELSE here("local", "waiting")
  OBVIOUS
<1>2. calls' = [calls EXCEPT ![v] = Append(calls[v], r)] /\ answers' = answers /\ net' = net
  BY <1>1 DEF CallHere, tables
<1>3. /\ r.on = on
      /\ ObjectOf(v, c) = NoId => r.route = "error" /\ r.state = "exception"
      /\ ObjectOf(v, c) # NoId => r.route = "local" /\ r.state = "waiting"
  BY <1>1
<1>4. RanAtOnce(delivered, delivered', v, k) /\ CallRun(r, k, delivered', calls[Peer(v)], v)
  <2>1. CASE ObjectOf(v, c) = NoId
    <3>1. delivered' = delivered
      BY <2>1 DEF CallHere
    <3>. QED
      BY <1>3, <2>1, <3>1 DEF RanAtOnce, CallRun
  <2>2. CASE ObjectOf(v, c) # NoId
    <3>1. PICK d : /\ d = [at |-> v, object |-> ObjectOf(v, c), from |-> v, n |-> k]
                   /\ delivered' = Append(delivered, d)
      BY <1>1, <2>2 DEF CallHere
    <3>2. d.from = v /\ d.n = k
      BY <3>1
    <3>3. Starts1(delivered, delivered', v, k)
      BY <3>1, <3>2, OfVat DEF Starts1
    <3>4. Ran(delivered', calls[Peer(v)], v, k)
      BY <3>3, StartedRun DEF Ran
    <3>. QED
      BY <1>3, <2>2, <3>3, <3>4 DEF RanAtOnce, CallRun
  <2>. QED
    BY <2>1, <2>2
<1>5. r.on.k # "answer" /\ net'[v] = net[v]
  BY <1>2, <1>3
<1>6. SentOff(net[Peer(v)], net'[Peer(v)], delivered, delivered', k, r)
  BY <1>2 DEF SentOff
<1>. QED
  BY <1>1, <1>2, <1>4, <1>5, <1>6, AppMadeRuns

LEMMA CallOnRuns ==
  ASSUME Inv, Inv', RunsInv, NEW v \in Vat, NEW on \in Origin, on.k # "answer", NEW c \in Client,
         NEW method \in Method, NEW arg \in Args(v), CallOn(v, on, c, method, arg)
  PROVE  RunsInv'
<1>1. CASE c.k = "import"
  <2>1. PICK target : target = [k |-> "importedCap", id |-> c.id]
    OBVIOUS
  <2>2. target \in Target
    BY <2>1 DEF Target, Client
  <2>3. Ask(v, on, "imported", target, method, arg)
    BY <1>1, <2>1 DEF CallOn
  <2>4. arg \in Client /\ Known(arg, exports[v], imports[v])
    BY ArgsKnown
  <2>. QED
    BY <2>2, <2>3, <2>4, AskRuns
<1>2. CASE c.k # "import"
  BY <1>2, CallHereRuns DEF CallOn
<1>. QED
  BY <1>1, <1>2

LEMMA AppCallRuns ==
  ASSUME Inv, Inv', RunsInv, NEW v \in Vat, AppCall(v)
  PROVE  RunsInv'
<1>1. CASE Bootstrap(v)
  BY <1>1, BootstrapRuns
<1>2. ASSUME NEW method \in Method, NEW arg \in Args(v), NEW m \in DOMAIN calls[v],
             PipelineCall(v, m, method, arg)
      PROVE  RunsInv'
  <2>1. PICK on : on = [k |-> "call", n |-> m]
    OBVIOUS
  <2>2. on \in Origin /\ on.k # "answer" /\ m \in Nat
    BY <2>1, CallTypes DEF Origin
  <2>3. calls[v][m] \in CallRecord /\ calls[v][m].id \in Nat \cup {NoId} /\ calls[v][m].id # NoId
    BY <1>2, CallTypes DEF CallRecord, PipelineCall
  <2>4. CASE FindQuestion(v, calls[v][m].id) = m
    <3>1. PICK target : target = [k |-> "promisedAnswer", id |-> calls[v][m].id]
      OBVIOUS
    <3>2. target \in Target
      BY <2>3, <3>1 DEF Target
    <3>3. Ask(v, on, "promised", target, method, arg)
      BY <1>2, <2>1, <2>4, <3>1 DEF PipelineCall
    <3>4. arg \in Client /\ Known(arg, exports[v], imports[v])
      BY ArgsKnown
    <3>. QED
      BY <2>2, <3>2, <3>3, <3>4, AskRuns
  <2>5. CASE FindQuestion(v, calls[v][m].id) # m
    <3>1. PICK c : /\ c = IF calls[v][m].state = "exception" THEN ErrorClient(0) ELSE calls[v][m].cap
                   /\ CallOn(v, on, c, method, arg)
      BY <1>2, <2>1, <2>5 DEF PipelineCall
    <3>2. ErrorClient(0) \in Client
      BY DEF ErrorClient, Client
    <3>3. c \in Client
      BY <3>1, <3>2, HeldKnown
    <3>. QED
      BY <2>2, <3>1, <3>3, CallOnRuns
  <2>. QED
    BY <2>4, <2>5
<1>3. ASSUME NEW method \in Method, NEW arg \in Args(v), NEW id \in DOMAIN answers[v],
             CallParam(v, id, method, arg)
      PROVE  RunsInv'
  <2>1. PICK on : on = [k |-> "param", n |-> answers[v][id].n]
    OBVIOUS
  <2>2. on \in Origin /\ on.k # "answer"
    BY <2>1, EntryKnown DEF Origin
  <2>3. CallOn(v, on, answers[v][id].param, method, arg)
    BY <1>3, <2>1 DEF CallParam
  <2>. QED
    BY <2>2, <2>3, EntryKnown, CallOnRuns
<1>. QED
  BY <1>1, <1>2, <1>3 DEF AppCall

\* A call is only forwarded if it was made on a promise: no export is an import.
LEMMA ForwardedOnce ==
  ASSUME Inv, NEW v \in Vat, NEW m, m.target.k = "importedCap", Kind(v, Route(v, m)) = "import"
  PROVE  FALSE
<1>1. Route(v, m).k = "import"
  BY DEF Kind
<1>2. m.target.id \in DOMAIN exports[v] /\ Route(v, m) = exports[v][m.target.id].client
  BY <1>1 DEF Route, ErrorClient
<1>3. ExportsOK(exports[v], imports[v])
  BY OfVat DEF VatOK
<1>. QED
  BY <1>1, <1>2, <1>3 DEF ExportsOK

LEMMA HandleCallForwardedRuns ==
  ASSUME Inv, Inv', RunsInv, NEW v \in Vat, HandleCallForwarded(v)
  PROVE  RunsInv'
<1>1. PICK w \in Vat : w = Peer(v) /\ Peer(w) = v /\ w # v
  BY PeerFacts
<1>2. PICK m, n, k, target : /\ m = Head(net[v]) /\ n = m.n /\ k = Len(calls[v]) + 1
                             /\ target = [k |-> "importedCap", id |-> Route(v, m).id]
  OBVIOUS
<1>3. PICK a, r, f : /\ a = NewAnswer(m, [k |-> "question", id |-> k], Param(v, m))
                     /\ r = [id |-> IdNext(questionID[v]), on |-> [k |-> "answer", n |-> n],
                             route |-> "forward", state |-> "waiting", cap |-> NullClient]
                     /\ f = CallMessage(v, target, m.method, Param(v, m))
  OBVIOUS
<1>4. /\ Handles(v, "call") /\ Reply(v, <<f>>) /\ delivered' = delivered
      /\ Kind(v, Route(v, m)) = "import"
      /\ answers' = [answers EXCEPT ![v] = Put(answers[v], m.id, a)]
      /\ calls' = [calls EXCEPT ![v] = Append(calls[v], r)]
  BY <1>2, <1>3 DEF HandleCallForwarded, Routed, NewQuestion
<1>5. /\ f.k = "call" /\ f.n = k /\ f.target.k = "importedCap"
      /\ r.on = [k |-> "answer", n |-> n] /\ r.on.k = "answer" /\ r.on.n = n
      /\ r.route = "forward" /\ r.state = "waiting"
      /\ a.n = n /\ ~a.ok /\ a.callee.k = "question" /\ a.callee.id = k
  BY <1>2, <1>3 DEF CallMessage, NewAnswer
<1>6. /\ calls'[v] = Append(calls[v], r) /\ calls'[w] = calls[w]
      /\ answers'[v] = Put(answers[v], m.id, a) /\ answers'[w] = answers[w]
  BY <1>1, <1>4, OfVat
<1>7. net'[v] = Tail(net[v]) /\ net'[w] = net[w] \o <<f>> /\ net[v] # <<>>
  BY <1>1, <1>4, NetReplied, HeadFacts DEF Inv
<1>8. f \in Message
  <2>1. net'[w] \in Seq(Message)
    BY <1>1 DEF Inv, TablesInv, ChannelOK
  <2>2. PICK s, s2 : s = net[w] /\ s2 = net'[w]
    OBVIOUS
  <2>3. s \in Seq(Message) /\ s2 \in Seq(Message) /\ s2 = s \o <<f>>
    BY <1>1, <1>7, <2>1, <2>2, ChannelTypes
  <2>4. s2[Len(s) + 1] = f /\ Len(s) + 1 \in DOMAIN s2
    BY <2>3
  <2>. QED
    BY <2>3, <2>4
<1>9. PICK T, C, B, K : T = delivered /\ C = calls[v] /\ B = calls'[v] /\ K = calls[w]
  OBVIOUS
<1>10. /\ MessageRun(m, T, K, C, w) /\ m.k = "call"
       /\ \A j \in DOMAIN net'[v] : net'[v][j].k = "call" => net'[v][j].n # n
  BY <1>1, <1>2, <1>4, <1>7, <1>9, HeadRuns
<1>11. Unrun(T, C, w, n) /\ n \in DOMAIN K
  BY <1>2, <1>10 DEF MessageRun
<1>12. K[n].route # "forward"
  <2>1. K[n].route = "forward" => m.target.k = "importedCap"
    BY <1>2, <1>10 DEF MessageRun
  <2>. QED
    BY <1>4, <2>1, ForwardedOnce
<1>13. CallRun(r, k, T, K, v)
  BY <1>1, <1>5, <1>11, <1>12 DEF CallRun, Unrun
<1>14. Forwards(r, T, T, C, w, net'[v])
  BY <1>5, <1>10, <1>11 DEF Forwards
<1>15. SentOff(net[w], net'[w], T, T, k, r)
  BY <1>5, <1>7, <1>8 DEF SentOff
<1>16. EntryRuns(answers'[v], T, K, B, w)
  <2>1. PICK A, A2 : A = answers[v] /\ A2 = answers'[v]
    OBVIOUS
  <2>2. EntryRuns(A, T, K, C, w)
    BY <1>1, <1>9, <2>1, RunsOf1 DEF RunsOK
  <2>3. Longer(C, B, k, r)
    <3>1. C \in Seq(CallRecord) /\ B = Append(C, r) /\ k = Len(C) + 1
      BY <1>2, <1>6, <1>9, CallTypes
    <3>. QED
      BY <3>1, CallGrows
  <2>4. \A id \in DOMAIN A : A[id].callee.k = "question" => A[id].callee.id \in DOMAIN C
    <3>1. AnswersOK(A, C, exports[v], imports[v])
      BY <1>9, <2>1, OfVat DEF VatOK
    <3>. QED
      BY <3>1 DEF AnswersOK, EntryOK
  <2>5. Grows(C, B) /\ Extends(T, T) /\ Grows(K, K)
    BY <2>3, Alike DEF Longer
  <2>6. EntryRuns(A, T, K, B, w)
    BY <2>2, <2>4, <2>5, EntryRunsStay
  <2>7. EntryRun(a, T, K, B, w)
    BY <1>5, <1>11, <2>3 DEF EntryRun, Forwarding, Longer
  <2>8. A2 = Put(A, m.id, a)
    BY <1>6, <2>1
  <2>9. EntryRuns(A2, T, K, B, w)
    BY <2>6, <2>7, <2>8, EntryRunsPut
  <2>. QED
    BY <2>1, <2>9
<1>17. RanAtOnce(delivered, delivered', v, k) /\ delivered' = T
  BY <1>4, <1>9 DEF RanAtOnce
<1>18. CallRun(r, k, delivered', calls[Peer(v)], v)
  BY <1>1, <1>9, <1>13, <1>17
<1>19. SentOff(net[Peer(v)], net'[Peer(v)], delivered, delivered', k, r)
  BY <1>1, <1>9, <1>15, <1>17
<1>20. Forwards(r, delivered, delivered', calls[v], Peer(v), net'[v])
  BY <1>1, <1>9, <1>14, <1>17
<1>21. EntryRuns(answers'[v], delivered', calls[Peer(v)], calls'[v], Peer(v))
  BY <1>1, <1>9, <1>16, <1>17
<1>22. ReadFrom(net[v], net'[v])
  BY <1>7 DEF ReadFrom
<1>. QED
  BY <1>1, <1>2, <1>6, <1>17, <1>18, <1>19, <1>20, <1>21, <1>22, MadeRuns

-----------------------------------------------------------------------------
LEMMA HandleMessageRuns ==
  ASSUME Inv, Inv', RunsInv, NEW v \in Vat, HandleMessage(v)
  PROVE  RunsInv'
BY HandleBootstrapRuns, HandleCallRefusedRuns, HandleCallRejectedRuns, HandleCallDeliveredRuns,
   HandleCallForwardedRuns, HandleCallQueuedRuns, HandleReturnRuns, HandleFinishRuns,
   HandleUnimplementedRuns
   DEF HandleMessage

LEMMA RunsInit == Init => RunsInv
<1> SUFFICES ASSUME Init PROVE RunsInv
  OBVIOUS
<1>1. DOMAIN delivered = {}
  BY DEF Init
<1>2. \A v \in Vat : DOMAIN calls[v] = {} /\ DOMAIN net[Peer(v)] = {} /\ DOMAIN answers[Peer(v)] = {}
  BY PeerFacts DEF Init, Empty
<1>. QED
  BY <1>1, <1>2 DEF RunsInv, LogOnce, Logged, ChannelRuns, EntryRuns, CallRuns

LEMMA RunsKept ==
  ASSUME Inv, Inv', RunsInv, [Next]_vars
  PROVE  RunsInv'
<1>1. CASE UNCHANGED vars
  BY <1>1, NothingRuns DEF vars
<1>2. CASE Next
  <2>1. PICK v \in Vat : \/ InitMain(v)
                         \/ AppCall(v)
                         \/ \E n \in DOMAIN calls[v] : Drop(v, n)
                         \/ RejectNext(v)
                         \/ \E id \in Ids : ServerEnds(v, id) \/ JoinEnds(v, id)
                         \/ \E n \in Ids : LocalEnds(v, n)
                         \/ HandleMessage(v)
    BY <1>2 DEF Next
  <2>2. CASE InitMain(v)
    BY <2>2, InitMainRuns
  <2>3. CASE AppCall(v)
    BY <2>3, AppCallRuns
  <2>4. CASE \E n \in DOMAIN calls[v] : Drop(v, n)
    BY <2>4, DropRuns
  <2>5. CASE RejectNext(v)
    BY <2>5, RejectNextRuns
  <2>6. ASSUME NEW id \in Ids, ServerEnds(v, id) PROVE RunsInv'
    BY <2>6, ServerEndsRuns
  <2>7. ASSUME NEW id \in Ids, JoinEnds(v, id) PROVE RunsInv'
    BY <2>7, JoinEndsRuns
  <2>8. ASSUME NEW n \in Ids, LocalEnds(v, n) PROVE RunsInv'
    BY <2>8, LocalFinishRuns DEF LocalEnds
  <2>9. CASE HandleMessage(v)
    BY <2>9, HandleMessageRuns
  <2>. QED
    BY <2>1, <2>2, <2>3, <2>4, <2>5, <2>6, <2>7, <2>8, <2>9
<1>. QED
  BY <1>1, <1>2

\* Where a call that has not run can be, and where its results come from: every
\* step keeps the log of the methods started (delivered) in agreement with the
\* tables, the channels and the calls of both vats.
THEOREM RunsAgree == Spec => []RunsInv
<1>1. Inv /\ Inv' /\ RunsInv /\ [Next]_vars => RunsInv'
  BY RunsKept
<1>. QED
  BY Everything, RunsInit, <1>1, PTL DEF Spec

\* Of the runs of a call one is left: those the peer started for the Call, and
\* those of the Call it was forwarded as, exclude each other.
LEMMA AtMostOneRun ==
  ASSUME Inv, RunsInv, NEW v \in Vat, NEW n, NEW i \in RunsOf(v, n), NEW j \in RunsOf(v, n)
  PROVE  i = j
<1>1. PICK w \in Vat : w = Peer(v) /\ Peer(w) = v /\ w # v
  BY PeerFacts
<1>2. PICK T, C, K : T = delivered /\ C = calls[v] /\ K = calls[w]
  OBVIOUS
<1>3. /\ RunsOK(T, C, K, net[w], answers[w], v) /\ RunsOK(T, K, C, net[v], answers[v], w)
      /\ LogOnce(T)
  BY <1>1, <1>2, RunsOf1
<1>4. Logged(T, w, K) /\ CallRuns(T, K, C, w)
  BY <1>3 DEF RunsOK
<1>5. \A x \in RunsOf(v, n) : \/ x \in DOMAIN T /\ T[x].from = v /\ T[x].n = n
                              \/ x \in DOMAIN T /\ T[x].from = w /\ Forwarding(K[T[x].n], n)
  BY <1>1, <1>2 DEF RunsOf, Forwarding
<1>6. ASSUME NEW x \in DOMAIN T, T[x].from = w, Forwarding(K[T[x].n], n)
      PROVE  T[x].n \in DOMAIN K /\ K[T[x].n].on.k = "answer" /\ ~RunHere(T, v, n)
  <2>1. T[x].n \in DOMAIN K
    BY <1>4, <1>6 DEF Logged
  <2>2. K[T[x].n].on.k = "answer" /\ K[T[x].n].on.n = n
    BY <1>6 DEF Forwarding
  <2>3. CallRun(K[T[x].n], T[x].n, T, C, w)
    BY <1>4, <2>1 DEF CallRuns
  <2>. QED
    BY <1>1, <2>1, <2>2, <2>3 DEF CallRun
<1>7. CASE T[i].from = v /\ T[j].from = v
  BY <1>1, <1>3, <1>5, <1>7 DEF LogOnce
<1>8. CASE T[i].from = w /\ T[j].from = w
  <2>1. Forwarding(K[T[i].n], n) /\ Forwarding(K[T[j].n], n) /\ i \in DOMAIN T /\ j \in DOMAIN T
    BY <1>1, <1>5, <1>8
  <2>2. T[i].n = T[j].n
    BY <1>4, <1>6, <1>8, <2>1 DEF CallRuns, Forwarding
  <2>. QED
    BY <1>3, <1>8, <2>1, <2>2 DEF LogOnce
<1>9. ASSUME T[i].from = v, T[j].from = w PROVE FALSE
  BY <1>1, <1>5, <1>6, <1>9 DEF RunHere
<1>10. ASSUME T[i].from = w, T[j].from = v PROVE FALSE
  BY <1>1, <1>5, <1>6, <1>10 DEF RunHere
<1>. QED
  BY <1>5, <1>7, <1>8, <1>9, <1>10

LEMMA SomeRun ==
  ASSUME Inv, RunsInv, NEW v \in Vat, NEW n, Ran(delivered, calls[Peer(v)], v, n)
  PROVE  RunsOf(v, n) # {}
<1>1. CASE RunHere(delivered, v, n)
  BY <1>1 DEF RunHere, RunsOf
<1>2. CASE \E f \in DOMAIN calls[Peer(v)] : Forwarding(calls[Peer(v)][f], n) /\ RunHere(delivered, Peer(v), f)
  BY <1>2 DEF RunHere, RunsOf, Forwarding
<1>. QED
  BY <1>1, <1>2 DEF Ran

LEMMA RunOnceHolds == Inv /\ RunsInv => RunOnce
<1> SUFFICES ASSUME Inv, RunsInv, NEW v \in Vat, NEW n \in DOMAIN calls[v]
             PROVE  /\ Cardinality(RunsOf(v, n)) <= 1
                    /\ calls[v][n].state = "results" /\ calls[v][n].route # "bootstrap"
                         => RunsOf(v, n) # {}
  BY DEF RunOnce
<1>1. Cardinality(RunsOf(v, n)) <= 1
  <2>1. PICK R : R = RunsOf(v, n)
    OBVIOUS
  <2>2. \A i, j \in R : i = j
    BY <2>1, AtMostOneRun
  <2>3. R = {} \/ \E x : R = {x}
    BY <2>2
  <2>4. Cardinality(R) = 0 \/ Cardinality(R) = 1
    BY <2>3, FS_EmptySet, FS_Singleton
  <2>. QED
    BY <2>1, <2>4
<1>2. ASSUME calls[v][n].state = "results", calls[v][n].route # "bootstrap"
      PROVE  RunsOf(v, n) # {}
  <2>1. CallRun(calls[v][n], n, delivered, calls[Peer(v)], v)
    BY RunsOf1 DEF RunsOK, CallRuns
  <2>. QED
    BY <1>2, <2>1, SomeRun DEF CallRun
<1>. QED
  BY <1>1, <1>2

\* However a call travels (over the wire, queued, forwarded back or inside the
\* vat), its method is started at most once, and was started if the caller got
\* results.
THEOREM RunsOnce == Spec => []RunOnce
BY Everything, RunsAgree, RunOnceHolds, PTL
=============================================================================
