---------------------------- MODULE OAuthToken ----------------------------
(***************************************************************************)
(* OAuth2RefreshAuth (ingestors/auth.py): processes that read one token    *)
(* file, refresh its access token when they believe it has expired, and    *)
(* write the file back through one temporary name, which they share.       *)
(* Whether the provider gives a new refresh token with every refresh (and  *)
(* forgets the old one), and when requests are lost, is up to the outside. *)
(*                                                                         *)
(* Abstracted: a token is a number; the wording and the headers of a       *)
(* request.  Assumed: a reply is there MaxDelay after it was sent, or not  *)
(* at all (requests' timeouts), and the provider tells the lifetime.       *)
(* MCData extends this module beside StatusFile: hence TokenInit etc.      *)
(***************************************************************************)
EXTENDS Naturals, FiniteSets

CONSTANTS Client,
          Lifetime,    \* of an access token: expires_in
          Margin,      \* what refresh() and _load_token subtract from it: 60 s
          MaxDelay,    \* from the provider's reply to its arrival: 45 s
          DefaultLife, \* the life that a file without an expiry is trusted for: 3300 s
          MaxTime,     \* bound: the clock
          MaxGrants    \* bound: tokens given

OAuthAssumption ==
    /\ {Lifetime, Margin, MaxDelay, DefaultLife, MaxTime, MaxGrants} \subseteq Nat
    /\ MaxDelay <= Margin /\ Margin <= Lifetime

Token == 0 .. MaxGrants
NoGrant == MaxGrants + 1      \* no token

VARIABLES
    now,
    rotates,  \* does the provider give new refresh tokens?
    live,     \* the refresh token it takes, or NoGrant
    expiry,   \* when each access token it gave really expires
    granted,  \* tokens given so far
    stored,     \* the token file
    tmp,      \* the temporary file
    auth,     \* per process: its OAuth2RefreshAuth and where it is
    mishap,   \* has a new refresh token been lost on the way to the file?
    overlap   \* have two saves been under way at once?

tokenVars == <<now, rotates, live, expiry, granted, stored, tmp, auth, mishap, overlap>>

\* A file's text: whole with its tokens and what it tells of the expiry ("at" a
\* time, "in" a time from when nobody knows, or nothing), or not whole.
NoFile == [text |-> "absent", access |-> NoGrant, refresh |-> NoGrant, tells |-> "nothing", at |-> 0]
Torn == [NoFile EXCEPT !.text = "torn"]

New == [pc |-> "new", access |-> NoGrant, refresh |-> NoGrant, until |-> 0,
        sure |-> FALSE,        \* is until what the provider told, less the margin?
        reply |-> NoGrant, sent |-> 0, rotated |-> FALSE, target |-> "none"]

TokenInit ==
    /\ now = 0 /\ granted = 0
    /\ rotates \in BOOLEAN
    /\ expiry = [t \in Token |-> 0]
    /\ stored \in {NoFile} \cup
         [text : {"whole"}, access : {0}, refresh : {0}, tells : {"at", "in", "nothing"}, at : {0}]
    /\ live = stored.refresh
    /\ tmp = NoFile
    /\ auth = [p \in Client |-> New]
    /\ mishap = FALSE /\ overlap = FALSE

At(p, pc) == auth[p].pc = pc

Set(p, a) == auth' = [auth EXCEPT ![p] = a]

Saving(p) == auth[p].pc \in {"save", "write", "replace"}

----------------------------------------------------------------------------

\* _load_token: a file that does not parse leaves the object without tokens,
\* and without a refresh token refresh() asks for client credentials.
LoadToken(p) ==
    /\ At(p, "new")
    /\ LET found == [auth[p] EXCEPT !.pc = "ready", !.access = stored.access,
                                    !.refresh = stored.refresh]
           Told(what) == stored.text = "whole" /\ stored.tells = what
       IN Set(p, CASE stored.text # "whole" -> [auth[p] EXCEPT !.pc = "ready"]
                   [] Told("at") -> [found EXCEPT !.until = stored.at, !.sure = TRUE]
                   [] Told("in") -> [found EXCEPT !.until = now + Lifetime - Margin]
                   [] OTHER -> [found EXCEPT !.until = now + DefaultLife])
    /\ UNCHANGED <<now, rotates, live, expiry, granted, stored, tmp, mishap, overlap>>

\* get_headers finds the token expired; otherwise it answers with what it has.
Expired(p) ==
    /\ At(p, "ready") /\ now >= auth[p].until
    /\ Set(p, [auth[p] EXCEPT !.pc = "request"])
    /\ UNCHANGED <<now, rotates, live, expiry, granted, stored, tmp, mishap, overlap>>

\* The request does not arrive, or the provider refuses it: refresh() is False,
\* and get_headers answers with the old token.
RefreshFails(p) ==
    /\ At(p, "request")
    /\ Set(p, [auth[p] EXCEPT !.pc = "ready"])
    /\ UNCHANGED <<now, rotates, live, expiry, granted, stored, tmp, mishap, overlap>>

\* The provider takes the refresh token, or the client's credentials where
\* there is none, and gives an access token; with rotation a refresh token too.
Grant(p) ==
    /\ At(p, "request") /\ granted < MaxGrants
    /\ auth[p].refresh \in {live, NoGrant}
    /\ granted' = granted + 1
    /\ expiry' = [expiry EXCEPT ![granted'] = now + Lifetime]
    /\ LET rotated == rotates /\ auth[p].refresh # NoGrant
       IN /\ live' = IF rotated THEN granted' ELSE live
          /\ Set(p, [auth[p] EXCEPT !.pc = "reply", !.reply = granted', !.sent = now,
                                    !.rotated = rotated])
    /\ UNCHANGED <<now, rotates, stored, tmp, mishap, overlap>>

\* The reply is lost: the object keeps its old tokens.
ReplyLost(p) ==
    /\ At(p, "reply")
    /\ Set(p, [auth[p] EXCEPT !.pc = "ready"])
    /\ mishap' = (mishap \/ auth[p].rotated)
    /\ UNCHANGED <<now, rotates, live, expiry, granted, stored, tmp, overlap>>

\* Mutant: the expiry is the provider's, without a margin for the way.
ReplyWithoutMargin(p) ==
    /\ At(p, "reply")
    /\ Set(p, [auth[p] EXCEPT !.pc = "save", !.access = auth[p].reply,
                              !.refresh = IF auth[p].rotated THEN auth[p].reply ELSE @,
                              !.until = now + Lifetime, !.sure = TRUE])
    /\ overlap' = (overlap \/ \E q \in Client \ {p} : Saving(q))
    /\ UNCHANGED <<now, rotates, live, expiry, granted, stored, tmp, mishap>>

\* The reply arrives: the tokens and, by this clock, the expiry.
Reply(p) ==
    /\ At(p, "reply")
    /\ Set(p, [auth[p] EXCEPT !.pc = "save", !.access = auth[p].reply,
                              !.refresh = IF auth[p].rotated THEN auth[p].reply ELSE @,
                              !.until = now + Lifetime - Margin, !.sure = TRUE])
    /\ overlap' = (overlap \/ \E q \in Client \ {p} : Saving(q))
    /\ UNCHANGED <<now, rotates, live, expiry, granted, stored, tmp, mishap>>

----------------------------------------------------------------------------
(* _save_token. *)

\* write_text opens the temporary name, which empties what is there.
OpenTmp(p) ==
    /\ At(p, "save")
    /\ tmp' = Torn
    /\ Set(p, [auth[p] EXCEPT !.pc = "write", !.target = "tmp"])
    /\ UNCHANGED <<now, rotates, live, expiry, granted, stored, mishap, overlap>>

\* Mutant: the refresh token that was loaded is written, not the new one.
TextOfOld(p) == [text |-> "whole", access |-> auth[p].access, refresh |-> stored.refresh,
                 tells |-> "at", at |-> auth[p].until]

\* token_data.
Text(p) == [text |-> "whole", access |-> auth[p].access, refresh |-> auth[p].refresh,
            tells |-> "at", at |-> auth[p].until]

\* It writes into the file it opened, which may have another name by now; over
\* the text of another save the two may run into each other.
WriteTmp(p) ==
    /\ At(p, "write")
    /\ LET Over(f) == {Text(p)} \cup (IF f.text = "whole" THEN {Torn} ELSE {})
       IN \/ auth[p].target = "tmp" /\ tmp' \in Over(tmp) /\ UNCHANGED stored
          \/ auth[p].target = "file" /\ stored' \in Over(stored) /\ UNCHANGED tmp
          \/ auth[p].target = "none" /\ UNCHANGED <<stored, tmp>>
    /\ Set(p, [auth[p] EXCEPT !.pc = "replace"])
    /\ UNCHANGED <<now, rotates, live, expiry, granted, mishap, overlap>>

\* os.replace renames whatever has the temporary name; the files that others
\* have open keep their contents and change their names.
Renamed(q) ==
    [q EXCEPT !.target = CASE @ = "tmp" -> "file" [] OTHER -> "none"]

ReplaceFile(p) ==
    /\ At(p, "replace") /\ tmp.text # "absent"
    /\ stored' = tmp /\ tmp' = NoFile
    /\ auth' = [q \in Client |->
                  IF q = p THEN [auth[p] EXCEPT !.pc = "ready", !.target = "none"]
                  ELSE Renamed(auth[q])]
    /\ UNCHANGED <<now, rotates, live, expiry, granted, mishap, overlap>>

\* The temporary file cannot be written, or is gone when it is to be renamed:
\* a warning, and the object goes on with tokens that the file does not have.
SaveFails(p) ==
    /\ Saving(p)
    /\ At(p, "replace") => tmp.text = "absent"
    /\ Set(p, [auth[p] EXCEPT !.pc = "ready", !.target = "none"])
    /\ mishap' = (mishap \/ auth[p].rotated)
    /\ UNCHANGED <<now, rotates, live, expiry, granted, stored, tmp, overlap>>

\* The process ends, at a good moment or a bad one, and starts again.
Restart(p) ==
    /\ auth[p].pc # "new"
    /\ Set(p, New)
    /\ mishap' = (mishap \/ (auth[p].rotated /\ (At(p, "reply") \/ Saving(p))))
    /\ UNCHANGED <<now, rotates, live, expiry, granted, stored, tmp, overlap>>

Tick ==
    /\ now < MaxTime
    /\ \A p \in Client : At(p, "reply") => now < auth[p].sent + MaxDelay
    /\ now' = now + 1
    /\ UNCHANGED <<rotates, live, expiry, granted, stored, tmp, auth, mishap, overlap>>

TokenStep(p) ==
    \/ LoadToken(p) \/ Expired(p)
    \/ RefreshFails(p) \/ Grant(p) \/ ReplyLost(p) \/ Reply(p)
    \/ OpenTmp(p) \/ WriteTmp(p) \/ ReplaceFile(p) \/ SaveFails(p)
    \/ Restart(p)

TokenNext == Tick \/ \E p \in Client : TokenStep(p)

TokenSpec == TokenInit /\ [][TokenNext]_tokenVars

----------------------------------------------------------------------------

Contents == [text : {"whole", "torn", "absent"}, access : Token \cup {NoGrant},
          refresh : Token \cup {NoGrant}, tells : {"at", "in", "nothing"}, at : Nat]

TokenTypeOK ==
    /\ now \in 0 .. MaxTime /\ rotates \in BOOLEAN
    /\ live \in Token \cup {NoGrant} /\ expiry \in [Token -> Nat] /\ granted \in Token
    /\ stored \in Contents /\ tmp \in Contents
    /\ auth \in [Client ->
         [pc : {"new", "ready", "request", "reply", "save", "write", "replace"},
          access : Token \cup {NoGrant}, refresh : Token \cup {NoGrant}, until : Nat,
          sure : BOOLEAN, reply : Token \cup {NoGrant}, sent : Nat, rotated : BOOLEAN, target : {"none", "tmp", "file"}]]
    /\ mishap \in BOOLEAN /\ overlap \in BOOLEAN

\* An access token that get_headers gives out as good is good at the provider:
\* the margin of 60 s covers the 45 s that the request may take.  Excepted is a
\* token from a file that does not say when it expires, which is trusted for
\* the whole of a life that began at nobody knows when (auth.py:75-82, 122).
BelievedTokenIsValid ==
    \A p \in Client :
        At(p, "ready") /\ now < auth[p].until /\ auth[p].sure => now < expiry[auth[p].access]

\* When nobody is between a grant and the end of its save, the file is whole
\* and has the refresh token that the provider takes, unless a rotated token
\* was lost with a reply, a save or a process, or two saves met in the shared
\* temporary name (_save_token is not as atomic as it says, auth.py:85-95).
RefreshTokenKept ==
    (\A p \in Client : ~At(p, "reply") /\ ~Saving(p)) /\ ~mishap /\ ~overlap =>
        stored.refresh = live /\ stored.text # "torn"
=============================================================================
