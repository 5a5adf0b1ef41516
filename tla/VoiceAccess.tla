---------------------------- MODULE VoiceAccess ----------------------------
(* Who may talk to which beamline through the voice assistant, end to end:    *)
(* Keycloak's claims, the token service's POST /token                         *)
(* (src/files/ai-platform/voice-token-server.py), the rooms of                *)
(* voice-agent/room_scope.py and the start of an agent session                *)
(* (voice-agent/agent.py, entrypoint).                                        *)
(*                                                                            *)
(* Names of rooms and identities are sequences of characters, so that what    *)
(* their concatenation, a cut slug or a colliding digest may confuse is seen. *)
EXTENDS Naturals, Sequences, FiniteSets

CONSTANTS
  Operators,      \* Keycloak users
  Chars, Dash,    \* the characters of a name, and "-"
  Name,           \* of each user, line 93 before the cut: preferred_username in lower
                  \* case, each run of other characters a dash, none at the ends
  User,           \* "user"
  SlugLength,     \* 32
  Digest,         \* of each user: the first digits of sha1 of the sub
  DigestLength,   \* 6
  Servers,        \* argusMcpServers: records [roomName, beamline]
  ClaimSets,      \* the claims a user can be given: [roles, beamlines]
  MaxTokens,      \* bound: voice tokens minted
  MaxSessions     \* bound: jobs and agent sessions at a time

(* What the substitution and the strip of line 93 leave: no dash at an end,   *)
(* no two dashes in a row.                                                    *)
Plain(name) ==
  /\ name \in Seq(Chars)
  /\ name # <<>> => name[1] # Dash /\ name[Len(name)] # Dash
  /\ \A i \in 1 .. Len(name) - 1 : ~(name[i] = Dash /\ name[i + 1] = Dash)

ASSUME AccessAssumption ==
  /\ Dash \in Chars
  /\ \A s \in Servers : s.roomName \in Seq(Chars)
  /\ \A o \in Operators : Plain(Name[o])
  /\ Plain(User) /\ User # <<>>
  /\ SlugLength \in Nat \ {0} /\ DigestLength \in Nat
  /\ Digest \in [Operators -> [1 .. DigestLength -> Chars \ {Dash}]]
  /\ MaxTokens \in Nat /\ MaxSessions \in Nat

VARIABLES
  loginRequired,  \* whether OIDC_ISSUER is set: chosen at deployment
  claims,         \* Keycloak: the claims each user has now
  bearer,         \* the claims in the access token a browser holds, or NoToken
  tokens,         \* voice tokens minted: [room, identity, holder, base, claims]
  jobs,           \* dispatched, not yet started: [room, identity, canAct, claims]
  sessions        \* agents at work: the job, and the server that was selected

accessVars == <<loginRequired, claims, bearer, tokens, jobs, sessions>>

NoToken == [roles |-> {}, beamlines |-> {}, valid |-> FALSE]
Anonymous == <<>>

AllowedRooms == {s.roomName : s \in Servers} \ {<<>>}

(* Lines 16-22 of templates/ai-platform/voice-token.yaml: a later entry with  *)
(* the same room overwrites an earlier one; any of them may be the later.     *)
RoomBeamlines(base) == {s.beamline : s \in {x \in Servers : x.roomName = base}}

IsAdmin(c) == "platform.admin" \in c.roles

AuthorizeVoice(c, beamline) ==
  \/ IsAdmin(c)
  \/ "argus.use" \in c.roles /\ beamline \in c.beamlines

Sep == <<Dash, Dash>>

Slug(o) ==
  IF Name[o] = <<>> THEN User
  ELSE IF Len(Name[o]) <= SlugLength THEN Name[o] ELSE SubSeq(Name[o], 1, SlugLength)

(* Mutant: the room goes without the digest.                                  *)
RoomBySlug(base, o) == base \o Sep \o Slug(o)

OperatorRoom(base, o) == base \o Sep \o Slug(o) \o <<Dash>> \o Digest[o]

(* room.rsplit("--", 1)[-1] of a private room, without "operator-": what      *)
(* follows the last separator. Of a slug that was cut after a dash nothing    *)
(* remains in it, as that dash and the next one are a separator, too.         *)
Seps(room) == {i \in 1 .. Len(room) - 1 : room[i] = Dash /\ room[i + 1] = Dash}
LastSep(room) == CHOOSE i \in Seps(room) : \A j \in Seps(room) : j <= i
Identity(room) == SubSeq(room, LastSep(room) + 2, Len(room))

MayAct(c) == "argus.actions" \in c.roles \/ IsAdmin(c)

(* select_server_for_room: the servers whose room is this one, or this one    *)
(* without an operator suffix; a session needs exactly one of them.           *)
StartsWith(room, prefix) ==
  Len(prefix) <= Len(room) /\ \A i \in 1 .. Len(prefix) : room[i] = prefix[i]
Under(roomName, room) ==
  roomName = room \/ (roomName # <<>> /\ StartsWith(room, roomName \o Sep))
Matches(room) == {s \in Servers : Under(s.roomName, room)}

(* Mutant: any matching server will do.                                       *)
SelectedFirst(room, s) == s \in Matches(room)

Selected(room, s) == Matches(room) = {s}
-----------------------------------------------------------------------------
AccessInit ==
  /\ loginRequired \in BOOLEAN
  /\ claims \in [Operators -> ClaimSets]
  /\ bearer = [o \in Operators |-> NoToken]
  /\ tokens = {}
  /\ jobs = {}
  /\ sessions = {}

\* ---- Keycloak (external) ----

ChangeClaims(o) ==
  /\ \E c \in ClaimSets : claims' = [claims EXCEPT ![o] = c]
  /\ UNCHANGED <<loginRequired, bearer, tokens, jobs, sessions>>

(* A login or a refresh; an access token keeps the claims it was issued with. *)
Login(o) ==
  /\ bearer' = [bearer EXCEPT ![o] =
       [roles |-> claims[o].roles, beamlines |-> claims[o].beamlines, valid |-> TRUE]]
  /\ UNCHANGED <<loginRequired, claims, tokens, jobs, sessions>>

Logout(o) ==
  /\ bearer' = [bearer EXCEPT ![o] = NoToken]
  /\ UNCHANGED <<loginRequired, claims, tokens, jobs, sessions>>

\* ---- POST /token ----

(* dispatch_agent starts a job, or not: the request may be a duplicate or the *)
(* dispatch may fail, and the token is returned all the same (line 312).      *)
Dispatch(job) ==
  \/ Cardinality(jobs \cup sessions) < MaxSessions /\ jobs' = jobs \cup {job}
  \/ UNCHANGED jobs

(* With login: do_POST from line 267 on, for a valid access token.            *)
PostWithLogin(o, base, beamline) ==
  /\ loginRequired
  /\ Cardinality(tokens) < MaxTokens
  /\ bearer[o].valid
  /\ base \in AllowedRooms
  /\ beamline \in RoomBeamlines(base)
  /\ AuthorizeVoice(bearer[o], beamline)
  /\ LET room == OperatorRoom(base, o)
     IN /\ tokens' = tokens \cup
             {[room |-> room, identity |-> Identity(room), holder |-> o, base |-> base,
               claims |-> bearer[o]]}
        /\ Dispatch([room |-> room, identity |-> Identity(room),
                     canAct |-> MayAct(bearer[o]), claims |-> bearer[o]])
  /\ UNCHANGED <<loginRequired, claims, bearer, sessions>>

(* Without: the shared room, any identity the client names (be it another     *)
(* operator's), no metadata.                                                  *)
PostAnonymous(o, base, identity) ==
  /\ ~loginRequired
  /\ Cardinality(tokens) < MaxTokens
  /\ base \in AllowedRooms
  /\ tokens' = tokens \cup
       {[room |-> base, identity |-> identity, holder |-> o, base |-> base, claims |-> NoToken]}
  /\ Dispatch([room |-> base, identity |-> Anonymous, canAct |-> FALSE, claims |-> NoToken])
  /\ UNCHANGED <<loginRequired, claims, bearer, sessions>>

\* ---- agent.py ----

(* Mutant: any signed-in operator gets the gate.                              *)
AgentStartsIgnoringCanAct(job, s) ==
  /\ job \in jobs
  /\ Selected(job.room, s)
  /\ jobs' = jobs \ {job}
  /\ sessions' = sessions \cup
       {[room |-> job.room, identity |-> job.identity, server |-> s,
         canAct |-> job.identity # Anonymous, claims |-> job.claims]}
  /\ UNCHANGED <<loginRequired, claims, bearer, tokens>>

AgentStarts(job, s) ==
  /\ job \in jobs
  /\ Selected(job.room, s)
  /\ jobs' = jobs \ {job}
  /\ sessions' = sessions \cup
       {[room |-> job.room, identity |-> job.identity, server |-> s,
         canAct |-> job.canAct /\ job.identity # Anonymous, claims |-> job.claims]}
  /\ UNCHANGED <<loginRequired, claims, bearer, tokens>>

(* RoomScopeError is raised before any tool exists: the job ends.             *)
AgentRefuses(job) ==
  /\ job \in jobs
  /\ \A s \in Servers : ~Selected(job.room, s)
  /\ jobs' = jobs \ {job}
  /\ UNCHANGED <<loginRequired, claims, bearer, tokens, sessions>>

SessionEnds(a) ==
  /\ a \in sessions
  /\ sessions' = sessions \ {a}
  /\ UNCHANGED <<loginRequired, claims, bearer, tokens, jobs>>

AccessNext ==
  \/ \E o \in Operators :
       \/ ChangeClaims(o) \/ Login(o) \/ Logout(o)
       \/ \E base \in AllowedRooms, b \in {s.beamline : s \in Servers} : PostWithLogin(o, base, b)
       \/ \E base \in AllowedRooms, i \in Operators : PostAnonymous(o, base, Digest[i])
  \/ \E job \in jobs : AgentRefuses(job) \/ \E s \in Servers : AgentStarts(job, s)
  \/ \E a \in sessions : SessionEnds(a)

AccessSpec == AccessInit /\ [][AccessNext]_accessVars
-----------------------------------------------------------------------------
(* Every variable keeps its type. *)
AccessTypeOK ==
  /\ loginRequired \in BOOLEAN
  /\ claims \in [Operators -> ClaimSets]
  /\ DOMAIN bearer = Operators
  /\ \A o \in Operators : DOMAIN bearer[o] = {"roles", "beamlines", "valid"}
  /\ \A k \in tokens :
       /\ k.base \in AllowedRooms /\ k.holder \in Operators
       /\ k.room \in Seq(Chars) /\ k.identity \in Seq(Chars)
  /\ \A j \in jobs \cup sessions : j.canAct \in BOOLEAN /\ j.identity \in Seq(Chars)
  /\ \A a \in sessions : a.server \in Servers

(* With login, two operators are let into one room only if it is the same     *)
(* base room and neither the slug nor the digest tells them apart. No other   *)
(* two names of rooms run together, whichever rooms are configured, be their  *)
(* names a part of each other's, wherever a slug is cut and although digests  *)
(* of one length may collide (lines 85-95: "keeps two usernames that slug     *)
(* identically apart").                                                       *)
PrivateRooms ==
  loginRequired => \A k, m \in tokens :
    k.room = m.room =>
      /\ k.base = m.base
      /\ Slug(k.holder) = Slug(m.holder) /\ Digest[k.holder] = Digest[m.holder]

(* With login, everyone who can enter a room with an agent in it was          *)
(* authorised, when the token was minted, for the very beamline that the      *)
(* agent's server belongs to: the token service and the agent resolve a room  *)
(* to the same beamline, or the agent refuses (room_scope.py lines 29-43).    *)
OnlyAuthorisedBeamline ==
  loginRequired => \A a \in sessions, k \in tokens :
    k.room = a.room => AuthorizeVoice(k.claims, a.server.beamline)

(* A session with actions is one that was dispatched for a signed-in operator *)
(* with the role, and that operator is the one the gate will listen to.       *)
ActionsNeedTheRole ==
  \A a \in sessions : a.canAct =>
    /\ loginRequired
    /\ \E k \in tokens :
         k.room = a.room /\ k.identity = a.identity /\ k.claims = a.claims /\ MayAct(k.claims)
=============================================================================
