---------------------------- MODULE OAuthSession ----------------------------
(***************************************************************************)
(* The login session of gateway.Service: one record under the mutex s.mu,  *)
(* which StartOAuth resets and PollOAuth completes.  Both leave the mutex  *)
(* to ask the upstream and take it again to write down the answer, so      *)
(* that the session may have been replaced meanwhile.  The browser pages   *)
(* launch and callback look at the session in several steps.               *)
(*                                                                         *)
(* A login is what the upstream opens for one auth state; logins are       *)
(* numbered in the order the upstream opens them.  Sessions are numbered   *)
(* in the order StartOAuth resets them, and the number stands for the      *)
(* random id and token: who presents it has the link of that session.      *)
(***************************************************************************)
EXTENDS Integers, Sequences

CONSTANTS
    Requests,       \* goroutines that serve the administration page
    Sites,          \* the regions
    NoSite,         \* the site of the session before the first login
    MaxSessions,    \* bound: sessions started
    MaxLogins       \* bound: auth states issued by the upstream

ASSUME SiteAssumption == NoSite \notin Sites
ASSUME SessionBounds == MaxSessions \in Nat /\ MaxLogins \in Nat

VARIABLES
    session,    \* Service.oauth
    lastState,  \* oauth.Client.lastPluginState, 0 for none
    pc,         \* where each request is
    copy,       \* the session a request started or copied
    got,        \* the login that a starting request received, 0 for none
    via,        \* the session whose link the browser presented, 0 for none
    page,       \* what the last page of a request told the browser
    issued,     \* upstream: the logins, with their site and confirmation
    asked,      \* which session received which login
    imported    \* logins whose account was put in the pool, with its site

gateway == <<session, lastState, asked, imported>>
request == <<pc, copy, got, via, page>>
vars    == <<gateway, request, issued>>

Session == [id : Nat, status : {"idle", "starting", "waiting", "success", "failed"},
            site : Sites \cup {NoSite}, login : Nat]

Login == [site : Sites, confirmed : BOOLEAN]

Page == [id : Nat, redirect : Nat, imported : BOOLEAN]

NoPage == [id |-> 0, redirect |-> 0, imported |-> FALSE]

Idle == [id |-> 0, status |-> "idle", site |-> NoSite, login |-> 0]

Steps == {"idle", "start", "again", "refused", "started", "poll", "quiet",
          "pollFailed", "pollPending", "pollSuccess", "imported", "launch",
          "callback"}

TypeOK ==
    /\ session \in Session
    /\ lastState \in Nat
    /\ pc \in [Requests -> Steps]
    /\ copy \in [Requests -> Session]
    /\ got \in [Requests -> Nat]
    /\ via \in [Requests -> Nat]
    /\ page \in [Requests -> Page]
    /\ issued \in Seq(Login)
    /\ asked \subseteq Nat \X Nat
    /\ imported \subseteq [login : Nat, site : Sites \cup {NoSite}]

Init ==
    /\ session = Idle
    /\ lastState = 0
    /\ pc = [p \in Requests |-> "idle"]
    /\ copy = [p \in Requests |-> Idle]
    /\ got = [p \in Requests |-> 0]
    /\ via = [p \in Requests |-> 0]
    /\ page = [p \in Requests |-> NoPage]
    /\ issued = << >>
    /\ asked = {}
    /\ imported = {}

Goto(p, step) == pc' = [pc EXCEPT ![p] = step]

(* The request is answered and its local variables are gone. *)
Return(p) ==
    /\ Goto(p, "idle")
    /\ copy' = [copy EXCEPT ![p] = Idle]
    /\ got' = [got EXCEPT ![p] = 0]
    /\ via' = [via EXCEPT ![p] = 0]

-----------------------------------------------------------------------------
(* StartOAuth.                                                             *)

(* resetOAuthSessionLocked, then the mutex is left. *)
StartOAuth(p, site) ==
    /\ pc[p] = "idle"
    /\ session.id < MaxSessions
    /\ session' = [id |-> session.id + 1, status |-> "starting", site |-> site,
                   login |-> 0]
    /\ copy' = [copy EXCEPT ![p] = session']
    /\ page' = [page EXCEPT ![p] = NoPage]
    /\ Goto(p, "start")
    /\ UNCHANGED <<lastState, asked, imported, got, via, issued>>

(* With reuseExisting, a waiting session is answered as it is, unless it   *)
(* is older than OAuthSessionTTL (when it is, is left to chance).          *)
StartReusing(p) ==
    /\ pc[p] = "idle"
    /\ session.status = "waiting" /\ session.login # 0
    /\ page' = [page EXCEPT ![p] = NoPage]
    /\ UNCHANGED <<gateway, pc, copy, got, via, issued>>

(* The upstream's answer to auth/state: a new login, or one it has already *)
(* given for this site.                                                    *)
Answers(p, l) ==
    \/ /\ l = Len(issued) + 1 /\ l <= MaxLogins
       /\ issued' = Append(issued, [site |-> copy[p].site, confirmed |-> FALSE])
    \/ /\ l \in 1..Len(issued) /\ issued[l].site = copy[p].site
       /\ UNCHANGED issued

(* A login that differs from the last one is taken; a repeated one is      *)
(* asked for once more.                                                    *)
StateReceived(p) ==
    /\ pc[p] = "start"
    /\ \E l \in 1..(Len(issued) + 1) :
        /\ Answers(p, l)
        /\ got' = [got EXCEPT ![p] = l]
        /\ \/ /\ l = lastState
              /\ Goto(p, "again")
              /\ UNCHANGED <<lastState, asked>>
           \/ /\ l # lastState
              /\ lastState' = l
              /\ asked' = asked \cup {<<copy[p].id, l>>}
              /\ Goto(p, "started")
    /\ UNCHANGED <<session, imported, copy, via, page>>

StateRefused(p) ==
    /\ pc[p] = "start"
    /\ Goto(p, "refused")
    /\ UNCHANGED <<gateway, copy, got, via, page, issued>>

(* The second answer replaces the first, unless it is an error or the same *)
(* again.                                                                  *)
RetryReceived(p) ==
    /\ pc[p] = "again"
    /\ \E l \in 1..(Len(issued) + 1) :
        /\ (l = got[p] /\ UNCHANGED issued) \/ Answers(p, l)
        /\ got' = [got EXCEPT ![p] = l]
        /\ lastState' = l
        /\ asked' = asked \cup {<<copy[p].id, l>>}
    /\ Goto(p, "started")
    /\ UNCHANGED <<session, imported, copy, via, page>>

(* Faulty variants: the answer of a start that was overtaken is written    *)
(* into the session of the other one; an error leaves the session starting.*)
StartAnsweredUnchecked(p) ==
    /\ pc[p] \in {"started", "refused"}
    /\ session' = IF pc[p] = "refused"
                  THEN [session EXCEPT !.status = "failed"]
                  ELSE [session EXCEPT !.status = "waiting", !.login = got[p]]
    /\ Return(p)
    /\ UNCHANGED <<lastState, asked, imported, page, issued>>

StartAnsweredUnreported(p) ==
    /\ pc[p] \in {"started", "refused"}
    /\ session' = IF session.id = copy[p].id /\ pc[p] = "started"
                  THEN [session EXCEPT !.status = "waiting", !.login = got[p]]
                  ELSE session
    /\ Return(p)
    /\ UNCHANGED <<lastState, asked, imported, page, issued>>

(* The mutex is taken again; a session that was replaced is left alone. *)
StartAnswered(p) ==
    /\ pc[p] \in {"started", "refused"}
    /\ \/ /\ session.id # copy[p].id
          /\ UNCHANGED session
       \/ /\ session.id = copy[p].id /\ pc[p] = "refused"
          /\ session' = [session EXCEPT !.status = "failed"]
       \/ /\ session.id = copy[p].id /\ pc[p] = "started"
          /\ session' = [session EXCEPT !.status = "waiting", !.login = got[p]]
    /\ Return(p)
    /\ UNCHANGED <<lastState, asked, imported, page, issued>>

-----------------------------------------------------------------------------
(* PollOAuth.                                                              *)

(* What the callback page says when it was opened with the link of a       *)
(* session: payload["ok"] decides.  The polling button shows the payload.  *)
Answered(p, ok) ==
    /\ page' = [page EXCEPT ![p] = [id |-> via[p], redirect |-> 0,
                                    imported |-> ok /\ via[p] # 0]]
    /\ Return(p)

(* The ok of oauthPayloadLocked. *)
PayloadOK(s) == s.status # "failed"

(* The session is copied; only a waiting one is polled. *)
PollOAuth(p) ==
    /\ pc[p] \in {"idle", "callback"}
    /\ copy' = [copy EXCEPT ![p] = session]
    /\ via' = [via EXCEPT ![p] = IF pc[p] = "callback" THEN @ ELSE 0]
    /\ page' = [page EXCEPT ![p] = NoPage]
    /\ Goto(p, IF session.status = "waiting" /\ session.login # 0
               THEN "poll" ELSE "quiet")
    /\ UNCHANGED <<gateway, got, issued>>

(* Nothing to poll: the session is read again and answered. *)
NothingToPoll(p) ==
    /\ pc[p] = "quiet"
    /\ Answered(p, PayloadOK(session))
    /\ UNCHANGED <<gateway, issued>>

(* The upstream's answer to auth/token: an error is always possible. *)
TokenAnswered(p, outcome) ==
    /\ pc[p] = "poll"
    /\ outcome = "pollSuccess" => issued[copy[p].login].confirmed
    /\ Goto(p, outcome)
    /\ UNCHANGED <<gateway, copy, got, via, page, issued>>

(* The error is written into the session of now, whichever that is. *)
PollFailed(p) ==
    /\ pc[p] = "pollFailed"
    /\ session' = [session EXCEPT !.status = "failed"]
    /\ Answered(p, FALSE)
    /\ UNCHANGED <<lastState, asked, imported, issued>>

PollPending(p) ==
    /\ pc[p] = "pollPending"
    /\ Answered(p, PayloadOK(session))
    /\ UNCHANGED <<gateway, issued>>

(* Faulty variants: the account gets the site of the session of now; a     *)
(* login is taken for done although Upsert failed before it stored it.     *)
ImportForCurrent(p) ==
    /\ pc[p] = "pollSuccess"
    /\ imported' = imported \cup {[login |-> copy[p].login, site |-> session.site]}
    /\ Goto(p, "imported")
    /\ UNCHANGED <<session, lastState, asked, copy, got, via, page, issued>>

ImportIgnoringError(p) ==
    /\ pc[p] = "pollSuccess"
    /\ Goto(p, "imported")
    /\ UNCHANGED <<gateway, copy, got, via, page, issued>>

(* The token becomes an account of the site that was polled.  Upsert may   *)
(* fail before it changes the pool, or after it when it writes the file;   *)
(* then PollOAuth returns the error and the session keeps waiting.         *)
Import(p) ==
    /\ pc[p] = "pollSuccess"
    /\ imported' = imported \cup {[login |-> copy[p].login, site |-> copy[p].site]}
    /\ Goto(p, "imported")
    /\ UNCHANGED <<session, lastState, asked, copy, got, via, page, issued>>

ImportFails(p) ==
    /\ pc[p] = "pollSuccess"
    /\ \/ UNCHANGED imported
       \/ imported' = imported \cup {[login |-> copy[p].login, site |-> copy[p].site]}
    /\ Return(p)
    /\ UNCHANGED <<session, lastState, asked, page, issued>>

PollSucceeded(p) ==
    /\ pc[p] = "imported"
    /\ session' = [session EXCEPT !.status = "success"]
    /\ Answered(p, TRUE)
    /\ UNCHANGED <<lastState, asked, imported, issued>>

-----------------------------------------------------------------------------
(* The pages launch and callback: the link is compared with the session in *)
(* one critical section, the session is used in another.  A link that is   *)
(* not the session's is refused at once.                                   *)

OpenLink(p, step) ==
    /\ pc[p] = "idle"
    /\ session.id # 0
    /\ via' = [via EXCEPT ![p] = session.id]
    /\ page' = [page EXCEPT ![p] = NoPage]
    /\ Goto(p, step)
    /\ UNCHANGED <<gateway, copy, got, issued>>

Launch(p) ==
    /\ pc[p] = "launch"
    /\ page' = [page EXCEPT ![p] =
                  [id |-> via[p], imported |-> FALSE,
                   redirect |-> IF session.status = "waiting" THEN session.login
                                ELSE 0]]
    /\ Return(p)
    /\ UNCHANGED <<gateway, issued>>

-----------------------------------------------------------------------------
(* Outside the program: the user completes a login in the browser.         *)

Confirm(l) ==
    /\ ~issued[l].confirmed
    /\ issued' = [issued EXCEPT ![l].confirmed = TRUE]
    /\ UNCHANGED <<gateway, request>>

-----------------------------------------------------------------------------
Begin(p) ==
    \/ \E site \in Sites : StartOAuth(p, site)
    \/ StartReusing(p)
    \/ OpenLink(p, "launch") \/ OpenLink(p, "callback")

Start(p) ==
    StateReceived(p) \/ StateRefused(p) \/ RetryReceived(p) \/ StartAnswered(p)

Poll(p) ==
    \/ NothingToPoll(p)
    \/ \E outcome \in {"pollFailed", "pollPending", "pollSuccess"} :
            TokenAnswered(p, outcome)
    \/ PollFailed(p) \/ PollPending(p)
    \/ Import(p) \/ ImportFails(p) \/ PollSucceeded(p)

Next ==
    \/ \E p \in Requests : Begin(p) \/ Start(p) \/ PollOAuth(p) \/ Poll(p) \/ Launch(p)
    \/ \E l \in DOMAIN issued : Confirm(l)

Spec == Init /\ [][Next]_vars

(* The goroutine that has its answer goes on.  Nothing is said of the      *)
(* upstream: the client has no timeout but that of the response header,    *)
(* and a body may stay unfinished for ever (provider/client.go:30-53).     *)
FairSpec == Spec /\ \A p \in Requests : WF_vars(StartAnswered(p))

-----------------------------------------------------------------------------
(* Correctness.                                                            *)

(***************************************************************************)
(* Of two starts that overlap, the session keeps the login that was asked  *)
(* for in its own name: the answer for a session that was replaced is      *)
(* dropped (service.go:685-687).                                           *)
(***************************************************************************)
LoginIsOwn == session.login # 0 => <<session.id, session.login>> \in asked

(***************************************************************************)
(* An account is stored under the region that issued its token, although   *)
(* the session may have moved to another region while the upstream was     *)
(* polled: the region decides which upstream the token is sent to.         *)
(***************************************************************************)
ImportedRegion ==
    \A i \in imported : i.login \in DOMAIN issued /\ issued[i.login].site = i.site

(***************************************************************************)
(* The session is never reported as successful before an account has been  *)
(* stored for some login of this process: a failing Upsert leaves it       *)
(* waiting, to be polled again (service.go:732-736).                       *)
(***************************************************************************)
SuccessHasImport == session.status = "success" => imported # {}

(***************************************************************************)
(* A session does not remain "starting" once the upstream has answered:    *)
(* the one StartOAuth that may complete it does so, with the login or with *)
(* the error.  Whenever one is starting, either that ends or its own       *)
(* StartOAuth still waits for the upstream.                                *)
(***************************************************************************)
AsksUpstream(p) == pc[p] \in {"start", "again"} /\ copy[p].id = session.id

StartSettles ==
    []<>(session.status # "starting" \/ \E p \in Requests : AsksUpstream(p))

-----------------------------------------------------------------------------
(* The inductive invariant behind the three safety properties.             *)

(* A copy is not newer than the session, and a session has one site. *)
CopiesOrdered ==
    /\ session.id = 0 => session.site = NoSite
    /\ \A p \in Requests :
        /\ copy[p].id <= session.id
        /\ copy[p].id = session.id => copy[p].site = session.site

(* A login was issued by the site of every session that holds it. *)
IssuedBy(l, site) == l \in DOMAIN issued /\ issued[l].site = site

LoginsIssued ==
    /\ session.login # 0 => IssuedBy(session.login, session.site)
    /\ \A p \in Requests :
        /\ copy[p].login # 0 => IssuedBy(copy[p].login, copy[p].site)
        /\ pc[p] \in {"again", "started"} => IssuedBy(got[p], copy[p].site)
        /\ pc[p] = "started" => <<copy[p].id, got[p]>> \in asked
        /\ pc[p] \in {"start", "again"} => copy[p].site \in Sites
        /\ pc[p] \in {"poll", "pollFailed", "pollPending", "pollSuccess", "imported"}
               => copy[p].login # 0

(* Who is about to report success has stored the account. *)
StoredFirst == \A p \in Requests : pc[p] = "imported" => imported # {}

SessionInv ==
    /\ TypeOK /\ CopiesOrdered /\ LoginsIssued /\ LoginIsOwn /\ ImportedRegion
    /\ StoredFirst /\ SuccessHasImport

-----------------------------------------------------------------------------
(* What the documentation says and the code does not do.                   *)

(***************************************************************************)
(* docs/architecture/overview.md:71: launch and callback compare under the *)
(* lock, which puts an end to races with a reset of the session.  Then the *)
(* link of a session redirects to a login of that session, and a callback  *)
(* for it writes its outcome into that session.                            *)
(***************************************************************************)
LinkActsOnItsSession ==
    [][\A p \in Requests :
        via[p] # 0 /\ pc[p] # "idle" /\ pc'[p] = "idle" =>
            /\ page'[p].redirect # 0 => <<via[p], page'[p].redirect>> \in asked
            /\ session' # session => session.id = via[p]]_vars

(***************************************************************************)
(* server.go:786: the callback page says that the login is confirmed and   *)
(* its account is in the pool.                                             *)
(***************************************************************************)
CallbackTellsTruth ==
    \A p \in Requests :
        page[p].imported =>
            \E i \in imported : <<page[p].id, i.login>> \in asked
=============================================================================
