----------------------------- MODULE Membership -----------------------------
(***************************************************************************)
(* The members of one group, supergroup or channel (chats.py, the chat     *)
(* operations of network.py) under the three interfaces that change them:  *)
(* User API (user_http.py), Admin API (admin_api.py) and Bot API           *)
(* (bot_api.py).  Every operation is one synchronous handler: its checks,  *)
(* the change and the updates it pushes to bots are one action.  A refused *)
(* request changes nothing and is no step.  The service messages of these  *)
(* operations are in GroupFeed.                                            *)
(*                                                                         *)
(* What bots are told is kept as what they know: told[b] is the status in  *)
(* the last my_chat_member pushed to b, seen[b][u] the status in the last  *)
(* chat_member about u pushed to b since its own last my_chat_member.      *)
(***************************************************************************)
EXTENDS FiniteSets

CONSTANTS
    Humans, Bots,       \* the users of the network; each bot has a token
    Creator,            \* the person who creates the chat
    Flags,              \* ADMIN_FLAGS, as many as the instance tells apart
    Manage,             \* can_manage_chat
    Restrict,           \* can_restrict_members
    Promote,            \* can_promote_members
    Nobody              \* promoted_by_bot_id = None

ASSUME UsersAssumption ==
    /\ Creator \in Humans
    /\ Humans \cap Bots = {}
    /\ Nobody \notin Bots

ASSUME FlagsAssumption ==
    /\ {Manage, Restrict, Promote} \subseteq Flags
    /\ Cardinality({Manage, Restrict, Promote}) = 3

Users == Humans \cup Bots

VARIABLES
    chatType,    \* ChatRecord.type
    members,     \* ChatRecord.members; status "none": no record
    told,        \* what each bot knows of itself
    seen         \* what each bot knows of the others

vars == <<chatType, members, told, seen>>

-----------------------------------------------------------------------------
ChatTypes == {"group", "supergroup", "channel"}
Active == {"creator", "administrator", "member"}
Admins == {"creator", "administrator"}
Statuses == Active \cup {"left", "kicked"}

Member == [status : Statuses \cup {"none"}, flags : SUBSET Flags,
           promotedBy : Bots \cup {Nobody}]

TypeOK ==
    /\ chatType \in ChatTypes
    /\ members \in [Users -> Member]
    /\ told \in [Bots -> Statuses \cup {"none"}]
    /\ seen \in [Bots -> [Users -> Statuses \cup {"none"}]]

-----------------------------------------------------------------------------
\* A Member as its constructor makes it.
Fresh(status) == [status |-> status, flags |-> {}, promotedBy |-> Nobody]

\* Fault: the rights do not imply can_manage_chat.
NothingImplied(flags) == flags

\* implied_manage_chat: any right implies can_manage_chat.
Implied(flags) == IF flags = {} THEN {} ELSE flags \cup {Manage}

\* Fault: a channel keeps its demoted bot as a member.
MemberWhenDemoted(u) == "member"

\* Where the loss of the last right takes an administrator.
Demoted(u) == IF u \in Bots /\ chatType = "channel" THEN "left" ELSE "member"

\* Fault: the rights outlive the demotion.
DemotedWithRights(u, m) == [m EXCEPT !.status = Demoted(u), !.promotedBy = Nobody]

NoLongerAdmin(u, m) == Fresh(Demoted(u))

\* What is refused with a 403 to everyone else (_membership_error, for a bot).
InChat(u) == members[u].status \in Active

\* _caller_has_flag
HasFlag(b, flag) == members[b].status = "creator" \/ flag \in members[b].flags

\* Fault: no one is told of a member who is out of the chat.
NotifyActive(u, m) ==
    IF m.status \notin Active THEN UNCHANGED <<told, seen>>
    ELSE /\ told' = [b \in Bots |-> IF b = u THEN m.status ELSE told[b]]
         /\ seen' = [b \in Bots |->
                IF b = u THEN [v \in Users |-> "none"]
                ELSE IF members[b].status \in Admins THEN [seen[b] EXCEPT ![u] = m.status]
                     ELSE seen[b]]

(* notify_membership: my_chat_member to the bot it is about, chat_member   *)
(* to every other bot that is an administrator.                            *)
Notify(u, m) ==
    /\ told' = [b \in Bots |-> IF b = u THEN m.status ELSE told[b]]
    /\ seen' = [b \in Bots |->
            IF b = u THEN [v \in Users |-> "none"]
            ELSE IF members[b].status \in Admins THEN [seen[b] EXCEPT ![u] = m.status]
                 ELSE seen[b]]

\* The common tail of the operations: store, notify.
Commit(u, m) ==
    /\ members' = [members EXCEPT ![u] = m]
    /\ Notify(u, m)
    /\ UNCHANGED chatType

-----------------------------------------------------------------------------
(* create_chat: the creator alone.  Its initial members are added by       *)
(* add_member with the creator as the actor.                               *)
Init ==
    /\ chatType \in ChatTypes
    /\ members = [u \in Users |-> Fresh(IF u = Creator THEN "creator" ELSE "none")]
    /\ told = [b \in Bots |-> "none"]
    /\ seen = [b \in Bots |-> [u \in Users |-> "none"]]

\* actor_can_add
CanAdd(a, u) ==
    /\ InChat(a)
    /\ u \in Bots \/ chatType = "channel" => members[a].status \in Admins

\* Fault: a ban does not keep anyone from being added.
AddBanned(a, u, status, flags) ==
    /\ CanAdd(a, u)
    /\ members[u].status \notin Active
    /\ LET m == IF status = "administrator" \/ (u \in Bots /\ chatType = "channel")
                THEN [Fresh("administrator") EXCEPT !.flags = Implied(flags)]
                ELSE Fresh("member")
       IN  Commit(u, m)

(* add_member.  A bot comes into a channel as an administrator, with       *)
(* can_post_messages unless the request says no; elsewhere, and for        *)
(* people, the request chooses.                                            *)
AddMember(a, u, status, flags) ==
    /\ CanAdd(a, u)
    /\ members[u].status \notin Active \cup {"kicked"}
    /\ LET m == IF status = "administrator" \/ (u \in Bots /\ chatType = "channel")
                THEN [Fresh("administrator") EXCEPT !.flags = Implied(flags)]
                ELSE Fresh("member")
       IN  Commit(u, m)

\* A session of the User API is a person's; the Admin API acts as anyone, or as
\* the creator if the request names nobody.
UserAdd(a, u, status, flags) == a \in Humans /\ AddMember(a, u, status, flags)

AdminAdd(a, u, status, flags) == AddMember(a, u, status, flags)

\* Fault: a removed member is banned, in a basic group too.
KickedOut(a, u) == IF a = u THEN "left" ELSE "kicked"

\* remove_member: who leaves, or is put out of a basic group, may come back.
RemovedAs(a, u) == IF a = u \/ chatType = "group" THEN "left" ELSE "kicked"

(* remove_member.  Both handlers look for the creator among the members    *)
(* first and fail, before any change, when there is none.                  *)
RemoveMember(a, u) ==
    /\ InChat(a)
    /\ members[u].status # "none"
    /\ \E c \in Users : members[c].status = "creator" /\ c # u
    /\ u # a => members[a].status \in Admins
    /\ Commit(u, [members[u] EXCEPT !.status = RemovedAs(a, u)])

UserRemove(a, u) == a \in Humans /\ RemoveMember(a, u)

AdminRemove(a, u) == RemoveMember(a, u)

(* leaveChat *)
LeaveChat(b) ==
    /\ InChat(b)
    /\ Commit(b, [members[b] EXCEPT !.status = "left"])

\* ban_member: a basic group has no bans.
BannedAs == IF chatType = "group" THEN "left" ELSE "kicked"

(* banChatMember *)
BanMember(b, u) ==
    /\ InChat(b)
    /\ HasFlag(b, Restrict)
    /\ members[u].status \notin {"none", "creator"}
    /\ Commit(u, [members[u] EXCEPT !.status = BannedAs])

\* The checks of unbanChatMember, which go by the chat and the caller alone.
MayUnban(b) == InChat(b) /\ chatType # "group" /\ HasFlag(b, Restrict)

(* unbanChatMember: lifts a ban, or puts out a member who has none unless  *)
(* the request says only_if_banned.  Anything else is a 200 without effect.*)
UnbanMember(b, u, onlyIfBanned) ==
    /\ MayUnban(b)
    /\ \/ members[u].status = "kicked"
       \/ members[u].status \in Active /\ ~onlyIfBanned
    /\ Commit(u, [members[u] EXCEPT !.status = "left"])

\* The checks of promoteChatMember, to which a banned user is like any other.
MayPromote(b, u) ==
    /\ InChat(b)
    /\ chatType # "group"
    /\ HasFlag(b, Promote)
    /\ members[u].status \notin {"none", "creator"}

\* Fault: whoever is left without a right is demoted, an administrator or not.
DemoteAnyone(b, u, flags) ==
    /\ MayPromote(b, u)
    /\ Commit(u, IF flags = {}
                 THEN NoLongerAdmin(u, members[u])
                 ELSE [status |-> "administrator", flags |-> Implied(flags),
                       promotedBy |-> b])

(* promoteChatMember: the flags replace the old ones; an administrator     *)
(* without any is demoted.                                                 *)
PromoteMember(b, u, flags) ==
    /\ MayPromote(b, u)
    /\ Commit(u, IF members[u].status = "administrator" /\ flags = {}
                 THEN NoLongerAdmin(u, members[u])
                 ELSE [status |-> "administrator", flags |-> Implied(flags),
                       promotedBy |-> b])

\* Fault: the person is recorded as the bot that granted the rights.
GrantedByActor(a, flags) ==
    [status |-> "administrator", flags |-> Implied(flags), promotedBy |-> a]

\* An administrator whom no bot has promoted.
GrantedByPerson(a, flags) == [Fresh("administrator") EXCEPT !.flags = Implied(flags)]

(* patch_member: "member" demotes an administrator and leaves everyone     *)
(* else as they are, but notifies all the same.                            *)
PatchMember(a, u, status, flags, requireCreator) ==
    /\ InChat(a)
    /\ requireCreator => members[a].status = "creator"
    /\ members[u].status \notin {"none", "creator"}
    /\ LET wasAdmin == members[u].status = "administrator"
       IN  Commit(u,
              IF status = "administrator"
              THEN IF wasAdmin /\ flags = {}
                   THEN NoLongerAdmin(u, members[u])
                   ELSE GrantedByPerson(a, flags)
              ELSE IF wasAdmin THEN NoLongerAdmin(u, members[u]) ELSE members[u])

UserPatch(a, u, status, flags) == a \in Humans /\ PatchMember(a, u, status, flags, TRUE)

AdminPatch(a, u, status, flags) == PatchMember(a, u, status, flags, FALSE)

-----------------------------------------------------------------------------
Next ==
    \/ \E a, u \in Users, status \in {"administrator", "member"}, flags \in SUBSET Flags :
            \/ UserAdd(a, u, status, flags) \/ AdminAdd(a, u, status, flags)
            \/ UserPatch(a, u, status, flags) \/ AdminPatch(a, u, status, flags)
    \/ \E a, u \in Users : UserRemove(a, u) \/ AdminRemove(a, u)
    \/ \E b \in Bots : LeaveChat(b)
    \/ \E b \in Bots, u \in Users :
            \/ BanMember(b, u)
            \/ \E onlyIfBanned \in BOOLEAN : UnbanMember(b, u, onlyIfBanned)
            \/ \E flags \in SUBSET Flags : PromoteMember(b, u, flags)

Spec == Init /\ [][Next]_vars

-----------------------------------------------------------------------------
(* A plain member has no rights left from an earlier life as an            *)
(* administrator, and owes none to a bot: demotion, leaving, bans and      *)
(* coming back, by whichever interface, end with a clean record            *)
(* (network.py:402-417, 499-508, 536-557).                                 *)
MembersHaveNoRights ==
    \A u \in Users : members[u].status = "member" =>
        members[u].flags = {} /\ members[u].promotedBy = Nobody

(* Whoever has any right has can_manage_chat (chats.py:76-82).             *)
RightsImplyManage ==
    \A u \in Users : members[u].flags # {} => Manage \in members[u].flags

\* A basic group has no bans.
NoBanInBasicGroup ==
    chatType = "group" => \A u \in Users : members[u].status # "kicked"

\* "A bot in a channel is never a member" (wave-3 specification, line 134).
ChannelBotsAreAdmins ==
    chatType = "channel" => \A b \in Bots : members[b].status # "member"

(* What the type of the chat rules out stays out, whoever is added,        *)
(* promoted, patched, demoted and put out by whichever interface: bots     *)
(* that are plain members of a channel, and bans in a basic group, so that *)
(* whoever was put out of it can be added again without an unban (wave-3   *)
(* specification, lines 134 and 207).                                      *)
ChatTypeIsRespected == NoBanInBasicGroup /\ ChannelBotsAreAdmins

\* A bot that follows its my_chat_member updates knows its status.
BotsKnowTheirStatus ==
    \A b \in Bots : told[b] = members[b].status

\* An administrator that follows chat_member holds nobody's outdated status.
AdminBotsAreUpToDate ==
    \A b \in Bots : members[b].status \in Admins =>
        \A u \in Users : seen[b][u] \in {"none", members[u].status}

(* Bots can follow the chat by their updates alone: each knows its own     *)
(* status from my_chat_member, and while it is an administrator it never   *)
(* holds an outdated status of anyone from chat_member: every operation of *)
(* every interface tells them (wave-3 specification, lines 188 and 191).   *)
BotsAreUpToDate == BotsKnowTheirStatus /\ AdminBotsAreUpToDate

(* A ban holds against everyone who adds, patches, promotes, demotes or    *)
(* leaves, by whichever interface: it ends only in being out of the chat,  *)
(* by a bot that may restrict members, or in being an administrator        *)
(* (network.py:394, 470-475, 499-508; without an unban nobody is added     *)
(* again, wave-3 specification, line 209).                                 *)
BansHold ==
    [][\A u \in Users : members[u].status = "kicked" =>
        \/ members'[u].status \in {"kicked", "administrator"}
        \/ /\ members'[u].status = "left"
           /\ \E b \in Bots : InChat(b) /\ HasFlag(b, Restrict)]_vars

(* The chat has the owner it was created with.  "Creator demote/ban is not *)
(* allowed" (wave-3 specification, line 221).                              *)
CreatorStays == members[Creator].status = "creator"

=============================================================================
