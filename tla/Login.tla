-------------------------------- MODULE Login --------------------------------
(***************************************************************************)
(* The DSM session of a client that logs in again by itself                *)
(* (synology-filestation-core session.rs): calls that carry the session id *)
(* as a cookie or in the URL, an expiry that every call under way may meet *)
(* at once, the login with the probe that settles how the id travels, and  *)
(* the logout.                                                             *)
(*                                                                         *)
(* The id and the mode are two cells read at each send and written at each *)
(* login.  The NAS takes cookies or does not, for good.                    *)
(***************************************************************************)
EXTENDS Naturals, FiniteSets

CONSTANTS Calls,         \* calls made through with_relogin_retry
          MaxExpiries    \* bound: sessions the NAS drops

LoginAssumption == MaxExpiries \in Nat

VARIABLES cookies,       \* the NAS takes the id from a cookie
          live,          \* sessions the NAS knows
          sid, mode,     \* the client's id, 0 for none, and how it travels
          call,          \* where each call is
          sent,          \* what its last request carried
          ran,           \* how often its operation was sent
          result,
          out,           \* the logout: no, asked, done
          issued, expired    \* ids given out; sessions dropped

vars == <<cookies, live, sid, mode, call, sent, ran, result, out, issued, expired>>

NoSid == 0
Modes == {"cookie", "query"}
Carried == [sid : Nat, mode : Modes]

TypeOK ==
    /\ cookies \in BOOLEAN /\ live \subseteq 1 .. issued /\ sid \in 0 .. issued
    /\ mode \in Modes
    /\ call \in [Calls -> {"new", "asked", "login", "probing", "again", "done"}]
    /\ \A c \in Calls : sent[c].sid \in 0 .. issued /\ sent[c].mode \in Modes
    /\ ran \in [Calls -> 0 .. 2]
    /\ result \in [Calls -> {"none", "ok", "119", "error", "login_failed"}]
    /\ out \in {"no", "asked", "done"}
    /\ issued \in Nat /\ expired \in 0 .. MaxExpiries

\* Logged in, and settled.
Init ==
    /\ cookies \in BOOLEAN /\ live = {1} /\ sid = 1
    /\ mode = IF cookies THEN "cookie" ELSE "query"
    /\ call = [c \in Calls |-> "new"]
    /\ sent = [c \in Calls |-> [sid |-> NoSid, mode |-> "cookie"]]
    /\ ran = [c \in Calls |-> 0] /\ result = [c \in Calls |-> "none"]
    /\ out = "no" /\ issued = 1 /\ expired = 0

Known(s) == s.sid \in live /\ (cookies \/ s.mode = "query")

At(c, where) == call' = [call EXCEPT ![c] = where]
Ends(c, r) == At(c, "done") /\ result' = [result EXCEPT ![c] = r]

\* attach_session, at the moment of sending.
Sends(c) ==
    /\ call[c] \in {"new", "again"}
    /\ At(c, "asked")
    /\ sent' = [sent EXCEPT ![c] = [sid |-> sid, mode |-> mode]]
    /\ ran' = [ran EXCEPT ![c] = @ + 1]
    /\ UNCHANGED <<cookies, live, sid, mode, result, out, issued, expired>>

\* with_relogin_retry: one 119 is a reason to log in again, the second an answer.
IsAnswered(c) ==
    /\ call[c] = "asked"
    /\ \/ Known(sent[c]) /\ Ends(c, "ok")
       \/ ~Known(sent[c]) /\ ran[c] = 1 /\ At(c, "login") /\ UNCHANGED result
       \/ ~Known(sent[c]) /\ ran[c] = 2 /\ Ends(c, "119")
       \/ Ends(c, "error")
    /\ UNCHANGED <<cookies, live, sid, mode, sent, ran, out, issued, expired>>

\* login: the new id is the client's at once, travels as a cookie, and is probed.
LogsIn(c) ==
    /\ call[c] = "login"
    /\ \/ /\ issued' = issued + 1 /\ live' = live \cup {issued + 1}
          /\ sid' = issued + 1 /\ mode' = "cookie"
          /\ sent' = [sent EXCEPT ![c] = [sid |-> issued + 1, mode |-> "cookie"]]
          /\ At(c, "probing") /\ UNCHANGED result
       \/ Ends(c, "login_failed") /\ UNCHANGED <<issued, live, sid, mode, sent>>
    /\ UNCHANGED <<cookies, ran, out, expired>>

\* A slip: a probe without an answer counts as a refusal.
IsProbed_OrLost(c) ==
    /\ call[c] = "probing"
    /\ \E answered \in BOOLEAN :
         mode' = IF ~answered \/ ~Known(sent[c]) THEN "query" ELSE mode
    /\ At(c, "again")
    /\ UNCHANGED <<cookies, live, sid, sent, ran, result, out, issued, expired>>

\* Only a 119 puts the id back into URLs; a probe that is lost says nothing.
IsProbed(c) ==
    /\ call[c] = "probing"
    /\ \E answered \in BOOLEAN :
         mode' = IF answered /\ ~Known(sent[c]) THEN "query" ELSE mode
    /\ At(c, "again")
    /\ UNCHANGED <<cookies, live, sid, sent, ran, result, out, issued, expired>>

\* DSM drops a session that has been idle: not one whose probe is on its way.
Expires ==
    /\ expired < MaxExpiries /\ expired' = expired + 1
    /\ \E s \in live : /\ \A c \in Calls : call[c] = "probing" => sent[c].sid # s
                       /\ live' = live \ {s}
    /\ UNCHANGED <<cookies, sid, mode, call, sent, ran, result, out, issued>>

\* logout: the NAS is told, if it hears, and then the id is forgotten.
Logout ==
    /\ \/ /\ out = "no" /\ out' = "asked" /\ live' \in {live, live \ {sid}} /\ sid' = sid
       \/ /\ out = "asked" /\ out' = "done" /\ sid' = NoSid /\ live' = live
    /\ UNCHANGED <<cookies, mode, call, sent, ran, result, issued, expired>>

Step(c) == Sends(c) \/ IsAnswered(c) \/ LogsIn(c) \/ IsProbed(c)
Next == (\E c \in Calls : Step(c)) \/ Expires \/ Logout

Spec == Init /\ [][Next]_vars

-----------------------------------------------------------------------------
(* Properties *)

\* However many calls log in again at once, the id goes back into URLs only on a
\* NAS that refused the cookie: an expired session is never taken for one
\* (probe_session_transport), except when a logout dropped the session probed.
CookieIsKept == mode = "query" => ~cookies \/ out # "no"

\* A call that ends in 119 twice met two dead sessions, on a NAS that takes
\* cookies: its second try carried an id a login had just earned.
TwiceRefused ==
    \A c \in Calls : result[c] = "119" /\ cookies /\ out = "no" => expired >= 2

\* login: "Settle how the token travels before any real call uses it".
SettledBeforeUse ==
    \A c \in Calls : result[c] = "119" /\ out = "no" => expired >= 2
=============================================================================
