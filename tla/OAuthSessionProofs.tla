------------------------- MODULE OAuthSessionProofs -------------------------
(***************************************************************************)
(* The theorems about OAuthSession, for any number of requests, sessions   *)
(* and logins.  The invariant is split in what holds of the session, of    *)
(* the imported accounts and of every request.  Whatever one request does  *)
(* only adds logins, imports and sessions (Grows), and that keeps what is  *)
(* true of the other requests; so each action is left with the session and *)
(* the request that moves.                                                 *)
(***************************************************************************)
EXTENDS OAuthSession, TLAPS

RequestInv(p) ==
    /\ copy[p].id <= session.id
    /\ copy[p].id = session.id => copy[p].site = session.site
    /\ copy[p].login # 0 => IssuedBy(copy[p].login, copy[p].site)
    /\ pc[p] \in {"again", "started"} => IssuedBy(got[p], copy[p].site)
    /\ pc[p] = "started" => <<copy[p].id, got[p]>> \in asked
    /\ pc[p] \in {"start", "again"} => copy[p].site \in Sites
    /\ pc[p] \in {"poll", "pollFailed", "pollPending", "pollSuccess", "imported"}
           => copy[p].login # 0
    /\ pc[p] = "imported" => imported # {}

SharedInv ==
    /\ session.id = 0 => session.site = NoSite
    /\ session.login # 0 => IssuedBy(session.login, session.site)
    /\ LoginIsOwn /\ ImportedRegion /\ SuccessHasImport

LEMMA Split == SessionInv <=> TypeOK /\ SharedInv /\ \A p \in Requests : RequestInv(p)
  BY Zenon DEF SessionInv, SharedInv, RequestInv, CopiesOrdered, LoginsIssued, StoredFirst

(* What no step of any request takes away. *)
Grows ==
    /\ \A l, s : IssuedBy(l, s) => IssuedBy(l, s)'
    /\ asked \subseteq asked'
    /\ imported # {} => imported' # {}
    /\ session'.id \in Nat /\ session.id <= session'.id
    /\ session'.id = session.id => session'.site = session.site

(* The other requests keep their local variables. *)
Elsewhere(p) ==
    \A q \in Requests \ {p} :
        pc'[q] = pc[q] /\ copy'[q] = copy[q] /\ got'[q] = got[q]

LEMMA OthersKeep ==
    ASSUME TypeOK, Grows, NEW q \in Requests, RequestInv(q),
           pc'[q] = pc[q], copy'[q] = copy[q], got'[q] = got[q]
    PROVE  RequestInv(q)'
  <1>1. copy[q].id \in Nat /\ session.id \in Nat
    BY DEF TypeOK, Session
  <1>2. (copy[q].id <= session.id)' /\ (copy[q].id = session.id => copy[q].site = session.site)'
    BY <1>1 DEF RequestInv, Grows
  <1>3. QED
    BY <1>2, Zenon DEF RequestInv, Grows

(* What is left to show of a step of request p. *)
Moves(p) ==
    /\ TypeOK' /\ Grows /\ SharedInv' /\ RequestInv(p)'
    /\ \A q \in Requests : q # p => pc'[q] = pc[q] /\ copy'[q] = copy[q] /\ got'[q] = got[q]

LEMMA MovesKeepInv ==
    ASSUME SessionInv, NEW p \in Requests, Moves(p)
    PROVE  SessionInv'
  <1>1. ASSUME NEW q \in Requests
        PROVE  RequestInv(q)'
    <2>1. CASE q = p
      BY <2>1 DEF Moves
    <2>2. CASE q # p
      BY <2>2, Split, OthersKeep, Zenon DEF Moves
    <2>3. QED
      BY <2>1, <2>2
  <1>2. QED
    BY <1>1, Zenon DEF Moves, SessionInv, SharedInv, RequestInv, CopiesOrdered,
                       LoginsIssued, StoredFirst

-----------------------------------------------------------------------------
(* Steps that leave the session, the logins and the imports alone.         *)

Shared == <<session, asked, imported, issued>>

LEMMA SharedUnchanged ==
    ASSUME SessionInv, UNCHANGED Shared
    PROVE  Grows /\ SharedInv'
  <1>1. session.id \in Nat
    BY DEF SessionInv, TypeOK, Session
  <1>2. SharedInv
    BY Split
  <1>3. SharedInv'
    BY <1>2 DEF Shared, SharedInv, LoginIsOwn, ImportedRegion, SuccessHasImport,
                IssuedBy
  <1>4. QED
    BY <1>1, <1>3 DEF Shared, Grows, IssuedBy

(* A request that has returned has nothing to remember. *)
LEMMA Returned ==
    ASSUME TypeOK, SharedInv, Grows, NEW p \in Requests, Return(p)
    PROVE  /\ RequestInv(p)'
           /\ pc' \in [Requests -> Steps] /\ copy' \in [Requests -> Session]
           /\ got' \in [Requests -> Nat] /\ via' \in [Requests -> Nat]
           /\ \A q \in Requests :
                q # p => pc'[q] = pc[q] /\ copy'[q] = copy[q] /\ got'[q] = got[q]
  <1>1. pc'[p] = "idle" /\ copy'[p] = Idle
    BY DEF TypeOK, Return, Goto
  <1>2. Idle.id = 0 /\ Idle.site = NoSite /\ Idle.login = 0 /\ Idle \in Session
    BY DEF Idle, Session
  <1>3. session.id \in Nat
    BY DEF TypeOK, Session
  <1>4. (session.id = 0 => session.site = NoSite)'
    BY <1>3 DEF SharedInv, Grows
  <1>5. RequestInv(p)'
    BY <1>1, <1>2, <1>3, <1>4 DEF RequestInv, Grows
  <1>6. "idle" \in Steps
    BY DEF Steps
  <1>7. QED
    BY <1>2, <1>5, <1>6 DEF TypeOK, Return, Goto

(* A page is a page. *)
LEMMA AnsweredTypes ==
    ASSUME TypeOK, NEW p \in Requests, NEW ok, Answered(p, ok)
    PROVE  page' \in [Requests -> Page]
  <1>1. [id |-> via[p], redirect |-> 0, imported |-> ok /\ via[p] # 0] \in Page
    BY Zenon DEF TypeOK, Page, Answered
  <1>2. QED
    BY <1>1 DEF TypeOK, Answered

LEMMA NoPageIsPage == NoPage \in Page /\ Idle \in Session
  BY DEF NoPage, Page, Idle, Session

LEMMA StepsListed ==
    {"idle", "start", "again", "refused", "started", "poll", "quiet", "pollFailed",
     "pollPending", "pollSuccess", "imported", "launch", "callback"} \subseteq Steps
  BY DEF Steps

LEMMA QuietMoves ==
    ASSUME SessionInv, NEW p \in Requests,
           \/ StartReusing(p) \/ OpenLink(p, "launch") \/ OpenLink(p, "callback")
           \/ PollOAuth(p) \/ StateRefused(p)
           \/ \E outcome \in {"pollFailed", "pollPending", "pollSuccess"} :
                  TokenAnswered(p, outcome)
    PROVE  Moves(p)
  <1>1. UNCHANGED Shared
    BY DEF Shared, gateway, StartReusing, OpenLink, PollOAuth, StateRefused,
           TokenAnswered
  <1>2. Grows /\ SharedInv' /\ SharedInv /\ RequestInv(p) /\ TypeOK
    BY <1>1, SharedUnchanged, Split
  <1>3. RequestInv(p)'
    <2>1. CASE StartReusing(p)
      BY <2>1, <1>2 DEF StartReusing, gateway, RequestInv, IssuedBy
    <2>2. CASE OpenLink(p, "launch") \/ OpenLink(p, "callback")
      BY <2>2, <1>2 DEF OpenLink, gateway, RequestInv, IssuedBy, Goto, TypeOK
    <2>3. CASE PollOAuth(p)
      BY <2>3, <1>2 DEF PollOAuth, gateway, RequestInv, SharedInv, IssuedBy, Goto,
                        TypeOK, Session
    <2>4. CASE StateRefused(p)
      BY <2>4, <1>2 DEF StateRefused, gateway, RequestInv, IssuedBy, Goto, TypeOK
    <2>5. ASSUME NEW outcome \in {"pollFailed", "pollPending", "pollSuccess"},
                 TokenAnswered(p, outcome)
          PROVE  RequestInv(p)'
      BY <2>5, <1>2 DEF TokenAnswered, gateway, RequestInv, IssuedBy, Goto, TypeOK
    <2>6. QED
      BY <2>1, <2>2, <2>3, <2>4, <2>5
  <1>4. TypeOK'
    <2>1. CASE StartReusing(p)
      BY <2>1, <1>2, NoPageIsPage DEF StartReusing, gateway, TypeOK
    <2>2. CASE OpenLink(p, "launch") \/ OpenLink(p, "callback")
      <3>1. PICK step \in {"launch", "callback"} : OpenLink(p, step)
        BY <2>2
      <3>2. pc' \in [Requests -> Steps]
        BY <3>1, <1>2, StepsListed DEF OpenLink, TypeOK, Goto
      <3>3. via' \in [Requests -> Nat] /\ page' \in [Requests -> Page]
        BY <3>1, <1>2, NoPageIsPage DEF OpenLink, TypeOK, Session
      <3>4. UNCHANGED <<session, lastState, copy, got, issued, asked, imported>>
        BY <3>1 DEF OpenLink, gateway
      <3>5. QED
        BY <1>2, <3>2, <3>3, <3>4 DEF TypeOK
    <2>3. CASE PollOAuth(p)
      BY <2>3, <1>2, NoPageIsPage, StepsListed DEF PollOAuth, gateway, TypeOK, Goto
    <2>4. CASE StateRefused(p)
      BY <2>4, <1>2, StepsListed DEF StateRefused, gateway, TypeOK, Goto
    <2>5. ASSUME NEW outcome \in {"pollFailed", "pollPending", "pollSuccess"},
                 TokenAnswered(p, outcome)
          PROVE  TypeOK'
      BY <2>5, <1>2, StepsListed DEF TokenAnswered, gateway, TypeOK, Goto
    <2>6. QED
      BY <2>1, <2>2, <2>3, <2>4, <2>5
  <1>5. QED
    BY <1>2, <1>3, <1>4 DEF Moves, StartReusing, OpenLink, PollOAuth, StateRefused,
                            TokenAnswered, Goto, TypeOK

LEMMA AnswerMoves ==
    ASSUME SessionInv, NEW p \in Requests,
           NothingToPoll(p) \/ PollPending(p) \/ Launch(p)
    PROVE  Moves(p)
  <1>1. UNCHANGED Shared /\ lastState' = lastState
    BY DEF Shared, gateway, NothingToPoll, PollPending, Launch
  <1>2. Grows /\ SharedInv' /\ SharedInv /\ TypeOK
    BY <1>1, SharedUnchanged, Split
  <1>3. Return(p)
    BY DEF NothingToPoll, PollPending, Launch, Answered
  <1>4. page' \in [Requests -> Page]
    <2>1. CASE Launch(p)
      BY <2>1, <1>2 DEF Launch, TypeOK, Page, Session
    <2>2. CASE NothingToPoll(p) \/ PollPending(p)
      BY <2>2, <1>2, AnsweredTypes DEF NothingToPoll, PollPending
    <2>3. QED
      BY <2>1, <2>2
  <1>5. TypeOK'
    BY <1>1, <1>2, <1>3, <1>4, Returned DEF TypeOK, Shared
  <1>6. QED
    BY <1>2, <1>3, <1>5, Returned DEF Moves

-----------------------------------------------------------------------------
(* Starting a session.                                                     *)

LEMMA StartMoves ==
    ASSUME SessionInv, NEW p \in Requests, NEW site \in Sites, StartOAuth(p, site)
    PROVE  Moves(p)
  <1>1. SharedInv /\ RequestInv(p) /\ TypeOK
    BY Split
  <1>2. session.id \in Nat /\ session' \in Session /\ session'.id = session.id + 1
        /\ session'.site = site /\ session'.login = 0 /\ session'.status = "starting"
    BY <1>1 DEF StartOAuth, TypeOK, Session
  <1>3. Grows
    BY <1>2 DEF StartOAuth, Grows, IssuedBy
  <1>4. SharedInv'
    BY <1>1, <1>2 DEF StartOAuth, SharedInv, LoginIsOwn, ImportedRegion,
                      SuccessHasImport
  <1>5. pc'[p] = "start" /\ copy'[p] = session'
    BY <1>1 DEF StartOAuth, Goto, TypeOK
  <1>6. RequestInv(p)'
    BY <1>2, <1>5 DEF RequestInv
  <1>7. TypeOK'
    BY <1>1, <1>2, NoPageIsPage, StepsListed DEF StartOAuth, TypeOK, Goto
  <1>8. QED
    BY <1>1, <1>3, <1>4, <1>6, <1>7 DEF Moves, StartOAuth, Goto, TypeOK

(* The logins that are known stay known, with their site. *)
Kept ==
    \A k \in DOMAIN issued : k \in DOMAIN issued' /\ issued'[k].site = issued[k].site

(* The upstream opens a login, or names one again. *)
LEMMA AnswerIssued ==
    ASSUME TypeOK, NEW p \in Requests, NEW l, copy[p].site \in Sites, Answers(p, l)
    PROVE  /\ issued' \in Seq(Login) /\ Kept
           /\ l \in Nat /\ l \in DOMAIN issued' /\ issued'[l].site = copy[p].site
  <1>1. issued \in Seq(Login)
    BY DEF TypeOK
  <1>2. CASE l = Len(issued) + 1
             /\ issued' = Append(issued, [site |-> copy[p].site, confirmed |-> FALSE])
    <2>1. [site |-> copy[p].site, confirmed |-> FALSE] \in Login
      BY DEF Login
    <2>2. QED
      BY <1>1, <1>2, <2>1 DEF Kept
  <1>3. CASE l \in 1..Len(issued) /\ issued[l].site = copy[p].site /\ issued' = issued
    BY <1>1, <1>3 DEF Kept
  <1>4. QED
    BY <1>2, <1>3 DEF Answers

(* What a request that receives login l changes. *)
LEMMA ReceiveMoves ==
    ASSUME SessionInv, NEW p \in Requests, NEW l, NEW step \in {"again", "started"},
           pc[p] \in {"start", "again"},
           issued' \in Seq(Login), Kept,
           l \in Nat, l \in DOMAIN issued', issued'[l].site = copy[p].site,
           got' = [got EXCEPT ![p] = l], Goto(p, step), lastState' \in Nat,
           step = "started" => <<copy[p].id, l>> \in asked',
           asked \subseteq asked', asked' \subseteq Nat \X Nat,
           UNCHANGED <<session, imported, copy, via, page>>
    PROVE  Moves(p)
  <1>1. SharedInv /\ RequestInv(p) /\ TypeOK
    BY Split
  <1>2. Grows
    BY <1>1 DEF Grows, Kept, IssuedBy, TypeOK, Session
  <1>3. SharedInv'
    BY <1>1 DEF SharedInv, LoginIsOwn, ImportedRegion, SuccessHasImport, IssuedBy, Kept
  <1>4. pc'[p] = step /\ got'[p] = l
    BY <1>1 DEF Goto, TypeOK
  <1>5. RequestInv(p)'
    BY <1>1, <1>4 DEF RequestInv, IssuedBy, Kept
  <1>6. TypeOK'
    BY <1>1, StepsListed DEF TypeOK, Goto
  <1>7. QED
    BY <1>1, <1>2, <1>3, <1>5, <1>6 DEF Moves, Goto, TypeOK

LEMMA StateReceivedMoves ==
    ASSUME SessionInv, NEW p \in Requests, StateReceived(p)
    PROVE  Moves(p)
  <1>1. PICK l \in 1..(Len(issued) + 1) :
            /\ Answers(p, l)
            /\ got' = [got EXCEPT ![p] = l]
            /\ \/ l = lastState /\ Goto(p, "again") /\ UNCHANGED <<lastState, asked>>
               \/ /\ l # lastState
                  /\ lastState' = l
                  /\ asked' = asked \cup {<<copy[p].id, l>>}
                  /\ Goto(p, "started")
    BY DEF StateReceived
  <1>2. RequestInv(p) /\ TypeOK /\ pc[p] = "start" /\ copy[p].site \in Sites
        /\ copy[p].id \in Nat
    BY Split DEF StateReceived, RequestInv, TypeOK, Session
  <1>3. /\ issued' \in Seq(Login) /\ Kept
        /\ l \in Nat /\ l \in DOMAIN issued' /\ issued'[l].site = copy[p].site
    BY <1>1, <1>2, AnswerIssued
  <1>4. UNCHANGED <<session, imported, copy, via, page>>
    BY DEF StateReceived
  <1>5. CASE Goto(p, "again") /\ UNCHANGED <<lastState, asked>>
    BY <1>1, <1>2, <1>3, <1>4, <1>5, ReceiveMoves DEF TypeOK
  <1>6. CASE Goto(p, "started") /\ lastState' = l
             /\ asked' = asked \cup {<<copy[p].id, l>>}
    <2>1. asked' \subseteq Nat \X Nat /\ lastState' \in Nat
      BY <1>2, <1>3, <1>6 DEF TypeOK
    <2>2. QED
      BY <1>1, <1>2, <1>3, <1>4, <1>6, <2>1, ReceiveMoves
  <1>7. QED
    BY <1>1, <1>5, <1>6

LEMMA RetryReceivedMoves ==
    ASSUME SessionInv, NEW p \in Requests, RetryReceived(p)
    PROVE  Moves(p)
  <1>1. PICK l \in 1..(Len(issued) + 1) :
            /\ (l = got[p] /\ UNCHANGED issued) \/ Answers(p, l)
            /\ got' = [got EXCEPT ![p] = l]
            /\ lastState' = l
            /\ asked' = asked \cup {<<copy[p].id, l>>}
    BY DEF RetryReceived
  <1>2. RequestInv(p) /\ TypeOK /\ pc[p] = "again" /\ copy[p].site \in Sites
        /\ copy[p].id \in Nat
    BY Split DEF RetryReceived, RequestInv, TypeOK, Session
  <1>3. /\ issued' \in Seq(Login) /\ Kept
        /\ l \in Nat /\ l \in DOMAIN issued' /\ issued'[l].site = copy[p].site
    <2>1. CASE l = got[p] /\ UNCHANGED issued
      BY <1>2, <2>1 DEF RequestInv, IssuedBy, TypeOK, Kept
    <2>2. CASE Answers(p, l)
      BY <1>2, <2>2, AnswerIssued
    <2>3. QED
      BY <1>1, <2>1, <2>2
  <1>4. UNCHANGED <<session, imported, copy, via, page>> /\ Goto(p, "started")
    BY DEF RetryReceived
  <1>5. asked' \subseteq Nat \X Nat /\ lastState' \in Nat
    BY <1>1, <1>2, <1>3 DEF TypeOK
  <1>6. QED
    BY <1>1, <1>2, <1>3, <1>4, <1>5, ReceiveMoves

(* The answer is written down only for the session it was asked for. *)
LEMMA StartAnsweredMoves ==
    ASSUME SessionInv, NEW p \in Requests, StartAnswered(p)
    PROVE  Moves(p)
  <1>1. SharedInv /\ RequestInv(p) /\ TypeOK
    BY Split
  <1>2. /\ session' \in Session /\ session'.id = session.id
        /\ session'.site = session.site
    BY <1>1 DEF StartAnswered, TypeOK, Session
  <1>3. Grows
    BY <1>1, <1>2 DEF StartAnswered, Grows, IssuedBy, TypeOK, Session
  <1>4. SharedInv'
    <2>1. CASE session' = session
      BY <1>1, <2>1 DEF StartAnswered, SharedInv, LoginIsOwn, ImportedRegion,
                        SuccessHasImport, IssuedBy
    <2>2. CASE session' = [session EXCEPT !.status = "failed"]
      BY <1>1, <2>2 DEF StartAnswered, SharedInv, LoginIsOwn, ImportedRegion,
                        SuccessHasImport, IssuedBy, TypeOK, Session
    <2>3. CASE /\ session.id = copy[p].id /\ pc[p] = "started"
               /\ session' = [session EXCEPT !.status = "waiting", !.login = got[p]]
      <3>1. IssuedBy(got[p], session.site) /\ <<session.id, got[p]>> \in asked
        BY <1>1, <2>3 DEF RequestInv
      <3>2. session'.login = got[p] /\ session'.id = session.id
            /\ session'.site = session.site /\ session'.status = "waiting"
        BY <1>1, <2>3 DEF TypeOK, Session
      <3>3. QED
        BY <1>1, <3>1, <3>2 DEF StartAnswered, SharedInv, LoginIsOwn,
                                ImportedRegion, SuccessHasImport, IssuedBy
    <2>4. QED
      BY <2>1, <2>2, <2>3 DEF StartAnswered
  <1>5. TypeOK'
    BY <1>1, <1>2, <1>3, Returned DEF TypeOK, StartAnswered
  <1>6. QED
    BY <1>1, <1>3, <1>4, <1>5, Returned DEF Moves, StartAnswered

-----------------------------------------------------------------------------
(* The outcome of a poll.                                                  *)

LEMMA PollFailedMoves ==
    ASSUME SessionInv, NEW p \in Requests, PollFailed(p)
    PROVE  Moves(p)
  <1>1. SharedInv /\ TypeOK
    BY Split
  <1>2. /\ session' \in Session /\ session'.id = session.id
        /\ session'.site = session.site /\ session'.login = session.login
        /\ session'.status = "failed"
    BY <1>1 DEF PollFailed, TypeOK, Session
  <1>3. Grows
    BY <1>1, <1>2 DEF PollFailed, Grows, IssuedBy, TypeOK, Session
  <1>4. SharedInv'
    BY <1>1, <1>2 DEF PollFailed, SharedInv, LoginIsOwn, ImportedRegion,
                      SuccessHasImport, IssuedBy
  <1>5. Return(p)
    BY DEF PollFailed, Answered
  <1>6. page' \in [Requests -> Page]
    BY <1>1, AnsweredTypes DEF PollFailed
  <1>7. TypeOK'
    BY <1>1, <1>2, <1>3, <1>5, <1>6, Returned DEF TypeOK, PollFailed
  <1>8. QED
    BY <1>1, <1>3, <1>4, <1>5, <1>7, Returned DEF Moves

LEMMA PollSucceededMoves ==
    ASSUME SessionInv, NEW p \in Requests, PollSucceeded(p)
    PROVE  Moves(p)
  <1>1. SharedInv /\ TypeOK /\ RequestInv(p)
    BY Split
  <1>2. /\ session' \in Session /\ session'.id = session.id
        /\ session'.site = session.site /\ session'.login = session.login
    BY <1>1 DEF PollSucceeded, TypeOK, Session
  <1>3. Grows
    BY <1>1, <1>2 DEF PollSucceeded, Grows, IssuedBy, TypeOK, Session
  <1>4. SharedInv'
    BY <1>1, <1>2 DEF PollSucceeded, SharedInv, LoginIsOwn, ImportedRegion,
                      SuccessHasImport, IssuedBy, RequestInv
  <1>5. Return(p)
    BY DEF PollSucceeded, Answered
  <1>6. page' \in [Requests -> Page]
    BY <1>1, AnsweredTypes DEF PollSucceeded
  <1>7. TypeOK'
    BY <1>1, <1>2, <1>3, <1>5, <1>6, Returned DEF TypeOK, PollSucceeded
  <1>8. QED
    BY <1>1, <1>3, <1>4, <1>5, <1>7, Returned DEF Moves

(* The account is stored with the site of the copy, which is the site that *)
(* issued the login, whatever the session has become.                      *)
LEMMA ImportKeeps ==
    ASSUME SessionInv, NEW p \in Requests, pc[p] = "pollSuccess",
           UNCHANGED <<session, asked, issued>>,
           \/ UNCHANGED imported
           \/ imported' = imported \cup {[login |-> copy[p].login,
                                          site |-> copy[p].site]}
    PROVE  Grows /\ SharedInv' /\ imported' \subseteq [login : Nat,
                                                      site : Sites \cup {NoSite}]
  <1>1. SharedInv /\ RequestInv(p) /\ TypeOK
    BY Split
  <1>2. IssuedBy(copy[p].login, copy[p].site)
    BY <1>1 DEF RequestInv
  <1>3. Grows
    BY <1>1 DEF Grows, IssuedBy, TypeOK, Session
  <1>4. SharedInv'
    BY <1>1, <1>2 DEF SharedInv, LoginIsOwn, ImportedRegion, SuccessHasImport, IssuedBy
  <1>5. QED
    BY <1>1, <1>3, <1>4 DEF TypeOK, Session

LEMMA ImportMoves ==
    ASSUME SessionInv, NEW p \in Requests, Import(p) \/ ImportFails(p)
    PROVE  Moves(p)
  <1>1. SharedInv /\ RequestInv(p) /\ TypeOK
    BY Split
  <1>2. Grows /\ SharedInv' /\ imported' \subseteq [login : Nat,
                                                   site : Sites \cup {NoSite}]
    BY ImportKeeps DEF Import, ImportFails
  <1>3. CASE Import(p)
    <2>1. pc'[p] = "imported" /\ imported' # {}
      BY <1>1, <1>3 DEF Import, Goto, TypeOK
    <2>2. RequestInv(p)'
      BY <1>1, <1>3, <2>1 DEF Import, RequestInv, IssuedBy
    <2>3. TypeOK'
      BY <1>1, <1>2, <1>3, StepsListed DEF Import, Goto, TypeOK
    <2>4. QED
      BY <1>1, <1>2, <1>3, <2>2, <2>3 DEF Moves, Import, Goto, TypeOK
  <1>4. CASE ImportFails(p)
    <2>1. TypeOK'
      BY <1>1, <1>2, <1>4, Returned DEF ImportFails, TypeOK
    <2>2. QED
      BY <1>1, <1>2, <1>4, <2>1, Returned DEF Moves, ImportFails
  <1>5. QED
    BY <1>3, <1>4

-----------------------------------------------------------------------------
(* The user confirms a login: its site is what it was.                     *)
LEMMA ConfirmKeeps ==
    ASSUME SessionInv, NEW l \in DOMAIN issued, Confirm(l)
    PROVE  SessionInv'
  <1>1. SharedInv /\ TypeOK
    BY Split
  <1>2. issued' \in Seq(Login) /\ Kept
    <2>1. issued \in Seq(Login) /\ issued[l] \in Login
      BY <1>1 DEF TypeOK
    <2>2. [issued[l] EXCEPT !.confirmed = TRUE] \in Login
          /\ [issued[l] EXCEPT !.confirmed = TRUE].site = issued[l].site
      BY <2>1 DEF Login
    <2>3. issued' = [issued EXCEPT ![l] = [issued[l] EXCEPT !.confirmed = TRUE]]
      BY DEF Confirm
    <2>4. QED
      BY <2>1, <2>2, <2>3 DEF Kept
  <1>3. Grows
    BY <1>1, <1>2 DEF Confirm, gateway, request, Grows, Kept, IssuedBy, TypeOK, Session
  <1>4. SharedInv'
    BY <1>1, <1>2 DEF Confirm, gateway, request, SharedInv, LoginIsOwn,
                      ImportedRegion, SuccessHasImport, IssuedBy, Kept
  <1>5. TypeOK'
    BY <1>1, <1>2 DEF Confirm, gateway, request, TypeOK
  <1>6. ASSUME NEW q \in Requests
        PROVE  RequestInv(q)'
    BY <1>1, <1>3, Split, OthersKeep DEF Confirm, gateway, request
  <1>7. QED
    BY <1>4, <1>5, <1>6, Zenon DEF SessionInv, SharedInv, RequestInv, CopiesOrdered,
                                   LoginsIssued, StoredFirst

-----------------------------------------------------------------------------
LEMMA InitInv == Init => SessionInv
  <1> SUFFICES ASSUME Init PROVE SessionInv
    OBVIOUS
  <1>1. Idle.id = 0 /\ Idle.site = NoSite /\ Idle.login = 0 /\ Idle.status = "idle"
    BY DEF Idle
  <1>2. TypeOK
    BY NoPageIsPage, StepsListed DEF Init, TypeOK
  <1>3. SharedInv
    BY <1>1 DEF Init, SharedInv, LoginIsOwn, ImportedRegion, SuccessHasImport
  <1>4. ASSUME NEW q \in Requests
        PROVE  RequestInv(q)
    BY <1>1 DEF Init, RequestInv
  <1>5. QED
    BY <1>2, <1>3, <1>4, Split

LEMMA StepInv == SessionInv /\ [Next]_vars => SessionInv'
  <1> SUFFICES ASSUME SessionInv, [Next]_vars PROVE SessionInv'
    OBVIOUS
  <1>1. ASSUME NEW p \in Requests, Begin(p)
        PROVE  SessionInv'
    BY <1>1, StartMoves, QuietMoves, MovesKeepInv DEF Begin
  <1>2. ASSUME NEW p \in Requests, Start(p)
        PROVE  SessionInv'
    BY <1>2, StateReceivedMoves, QuietMoves, RetryReceivedMoves, StartAnsweredMoves,
       MovesKeepInv DEF Start
  <1>3. ASSUME NEW p \in Requests, PollOAuth(p) \/ Launch(p)
        PROVE  SessionInv'
    BY <1>3, QuietMoves, AnswerMoves, MovesKeepInv
  <1>4. ASSUME NEW p \in Requests, Poll(p)
        PROVE  SessionInv'
    BY <1>4, QuietMoves, AnswerMoves, PollFailedMoves, ImportMoves,
       PollSucceededMoves, MovesKeepInv DEF Poll
  <1>5. ASSUME NEW l \in DOMAIN issued, Confirm(l)
        PROVE  SessionInv'
    BY <1>5, ConfirmKeeps
  <1>6. CASE UNCHANGED vars
    <2>1. SharedInv /\ TypeOK
      BY Split
    <2>2. Grows /\ SharedInv'
      BY <1>6, SharedUnchanged DEF vars, gateway, Shared
    <2>3. TypeOK'
      BY <1>6, <2>1 DEF vars, gateway, request, TypeOK
    <2>4. ASSUME NEW q \in Requests
          PROVE  RequestInv(q)'
      BY <1>6, <2>1, <2>2, Split, OthersKeep DEF vars, request
    <2>5. QED
      BY <2>2, <2>3, <2>4, Zenon DEF SessionInv, SharedInv, RequestInv,
                                     CopiesOrdered, LoginsIssued, StoredFirst
  <1>7. QED
    BY <1>1, <1>2, <1>3, <1>4, <1>5, <1>6 DEF Next

(***************************************************************************)
(* The invariant, for any number of requests, sessions and logins:         *)
(* types, sites and owners of what requests carry around their upstream    *)
(* calls (StartOAuth and PollOAuth, service.go:666-756).                   *)
(***************************************************************************)
THEOREM SessionInvariant == Spec => []SessionInv
  <1>1. QED
    BY InitInv, StepInv, PTL DEF Spec

(***************************************************************************)
(* The session's login is one that was asked for in the session's name:    *)
(* overlapping calls of StartOAuth do not mix (service.go:685-687).        *)
(***************************************************************************)
THEOREM SessionOwnsLogin == Spec => []LoginIsOwn
  <1>1. SessionInv => LoginIsOwn
    BY DEF SessionInv
  <1>2. QED
    BY <1>1, SessionInvariant, PTL

(***************************************************************************)
(* Every imported account has the region that issued its token, although   *)
(* the session may have been replaced during the poll (service.go:732).    *)
(***************************************************************************)
THEOREM RegionIsIssuers == Spec => []ImportedRegion
  <1>1. SessionInv => ImportedRegion
    BY DEF SessionInv
  <1>2. QED
    BY <1>1, SessionInvariant, PTL

(***************************************************************************)
(* Success is reported only after an account was stored, also when Upsert  *)
(* fails at some times (service.go:732-743).                               *)
(***************************************************************************)
THEOREM SuccessIsStored == Spec => []SuccessHasImport
  <1>1. SessionInv => SuccessHasImport
    BY DEF SessionInv
  <1>2. QED
    BY <1>1, SessionInvariant, PTL
=============================================================================
