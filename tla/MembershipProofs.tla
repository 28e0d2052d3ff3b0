-------------------------- MODULE MembershipProofs --------------------------
(***************************************************************************)
(* Membership for any number of people, bots and rights.  Every operation  *)
(* of every interface stores one well-formed record and notifies; the      *)
(* invariants follow from that alone.                                      *)
(***************************************************************************)
EXTENDS Membership, TLAPS

\* What the record of user u may be in this chat.
WellFormed(u, m) ==
    /\ m \in Member
    /\ m.status = "member" => m.flags = {} /\ m.promotedBy = Nobody
    /\ m.flags # {} => Manage \in m.flags
    /\ chatType = "group" => m.status # "kicked"
    /\ u \in Bots /\ chatType = "channel" => m.status # "member"

RecordsInv == \A u \in Users : WellFormed(u, members[u])

NotificationsInv == BotsKnowTheirStatus /\ AdminBotsAreUpToDate

-----------------------------------------------------------------------------
(* The records the operations make.                                        *)

LEMMA ImpliedFlags ==
    ASSUME NEW flags \in SUBSET Flags
    PROVE  /\ Implied(flags) \in SUBSET Flags
           /\ Implied(flags) # {} => Manage \in Implied(flags)
BY FlagsAssumption DEF Implied

LEMMA AdministratorRecord ==
    ASSUME NEW u \in Users, NEW flags \in SUBSET Flags, NEW by \in Bots \cup {Nobody}
    PROVE  WellFormed(u, [status |-> "administrator", flags |-> Implied(flags),
                          promotedBy |-> by])
BY ImpliedFlags DEF WellFormed, Member, Statuses, Active

LEMMA DemotedRecord ==
    ASSUME NEW u \in Users
    PROVE  WellFormed(u, NoLongerAdmin(u, members[u]))
BY DEF NoLongerAdmin, Demoted, Fresh, WellFormed, Member, Statuses, Active

\* Only the status changes, to one that is out of the chat.
LEMMA OutRecord ==
    ASSUME NEW u \in Users, WellFormed(u, members[u]),
           NEW status \in {"left", "kicked"},
           chatType = "group" => status = "left"
    PROVE  WellFormed(u, [members[u] EXCEPT !.status = status])
BY DEF WellFormed, Member, Statuses

-----------------------------------------------------------------------------
LEMMA StepCommits ==
    ASSUME TypeOK, RecordsInv, Next
    PROVE  \E u \in Users, m \in Member : WellFormed(u, m) /\ Commit(u, m)
<1> DEFINE Goal == \E u \in Users, m \in Member : WellFormed(u, m) /\ Commit(u, m)
<1>0. ASSUME NEW u \in Users, NEW m, WellFormed(u, m), Commit(u, m)
      PROVE  Goal
  BY <1>0 DEF WellFormed
<1> HIDE DEF Goal
<1>1. ASSUME NEW a \in Users, NEW u \in Users, NEW status \in {"administrator", "member"},
             NEW flags \in SUBSET Flags, AddMember(a, u, status, flags)
      PROVE  Goal
  <2> DEFINE m == IF status = "administrator" \/ (u \in Bots /\ chatType = "channel")
                  THEN [Fresh("administrator") EXCEPT !.flags = Implied(flags)]
                  ELSE Fresh("member")
  <2>1. WellFormed(u, m)
    <3>1. CASE status = "administrator" \/ (u \in Bots /\ chatType = "channel")
      BY <3>1, AdministratorRecord DEF Fresh
    <3>2. CASE ~(status = "administrator" \/ (u \in Bots /\ chatType = "channel"))
      BY <3>2 DEF Fresh, WellFormed, Member, Statuses, Active
    <3>3. QED
      BY <3>1, <3>2
  <2>2. Commit(u, m)
    BY <1>1 DEF AddMember
  <2> HIDE DEF m
  <2>3. QED
    BY <1>0, <2>1, <2>2
<1>2. ASSUME NEW a \in Users, NEW u \in Users, NEW status \in {"administrator", "member"},
             NEW flags \in SUBSET Flags,
             UserPatch(a, u, status, flags) \/ AdminPatch(a, u, status, flags)
      PROVE  Goal
  <2> DEFINE wasAdmin == members[u].status = "administrator"
             m == IF status = "administrator"
                  THEN IF wasAdmin /\ flags = {}
                       THEN NoLongerAdmin(u, members[u])
                       ELSE GrantedByPerson(a, flags)
                  ELSE IF wasAdmin THEN NoLongerAdmin(u, members[u]) ELSE members[u]
  <2>1. WellFormed(u, GrantedByPerson(a, flags))
    BY AdministratorRecord DEF GrantedByPerson, Fresh
  <2>2. WellFormed(u, members[u])
    BY DEF RecordsInv
  <2>3. WellFormed(u, m)
    BY <2>1, <2>2, DemotedRecord
  <2>4. Commit(u, m)
    BY <1>2 DEF PatchMember, UserPatch, AdminPatch
  <2> HIDE DEF m
  <2>5. QED
    BY <1>0, <2>3, <2>4
<1>3. ASSUME NEW a \in Users, NEW u \in Users, RemoveMember(a, u)
      PROVE  Goal
  <2> DEFINE m == [members[u] EXCEPT !.status = RemovedAs(a, u)]
  <2>1. WellFormed(u, m)
    BY OutRecord DEF RemovedAs, RecordsInv
  <2>2. Commit(u, m)
    BY <1>3 DEF RemoveMember
  <2> HIDE DEF m
  <2>3. QED
    BY <1>0, <2>1, <2>2
<1>4. ASSUME NEW b \in Bots, LeaveChat(b)
      PROVE  Goal
  <2> DEFINE m == [members[b] EXCEPT !.status = "left"]
  <2>1. b \in Users /\ WellFormed(b, m)
    BY OutRecord DEF RecordsInv, Users
  <2>2. Commit(b, m)
    BY <1>4 DEF LeaveChat
  <2> HIDE DEF m
  <2>3. QED
    BY <1>0, <2>1, <2>2
<1>5. ASSUME NEW b \in Bots, NEW u \in Users, BanMember(b, u)
      PROVE  Goal
  <2> DEFINE m == [members[u] EXCEPT !.status = BannedAs]
  <2>1. WellFormed(u, m)
    BY OutRecord DEF RecordsInv, BannedAs
  <2>2. Commit(u, m)
    BY <1>5 DEF BanMember
  <2> HIDE DEF m
  <2>3. QED
    BY <1>0, <2>1, <2>2 DEF Users
<1>6. ASSUME NEW b \in Bots, NEW u \in Users, NEW onlyIfBanned \in BOOLEAN,
             UnbanMember(b, u, onlyIfBanned)
      PROVE  Goal
  <2> DEFINE m == [members[u] EXCEPT !.status = "left"]
  <2>1. WellFormed(u, m)
    BY OutRecord DEF RecordsInv
  <2>2. Commit(u, m)
    BY <1>6 DEF UnbanMember
  <2> HIDE DEF m
  <2>3. QED
    BY <1>0, <2>1, <2>2 DEF Users
<1>7. ASSUME NEW b \in Bots, NEW u \in Users, NEW flags \in SUBSET Flags,
             PromoteMember(b, u, flags)
      PROVE  Goal
  <2> DEFINE m == IF members[u].status = "administrator" /\ flags = {}
                  THEN NoLongerAdmin(u, members[u])
                  ELSE [status |-> "administrator", flags |-> Implied(flags),
                        promotedBy |-> b]
  <2>1. WellFormed(u, m)
    BY DemotedRecord, AdministratorRecord
  <2>2. Commit(u, m)
    BY <1>7 DEF PromoteMember
  <2> HIDE DEF m
  <2>3. QED
    BY <1>0, <2>1, <2>2
<1>8. Goal
  BY <1>1, <1>2, <1>3, <1>4, <1>5, <1>6, <1>7 DEF Next, UserAdd, AdminAdd, UserRemove,
     AdminRemove
<1>9. QED
  BY <1>8 DEF Goal

LEMMA CommitKeeps ==
    ASSUME TypeOK, RecordsInv, NotificationsInv,
           NEW u \in Users, NEW m \in Member, WellFormed(u, m), Commit(u, m)
    PROVE  TypeOK' /\ RecordsInv' /\ NotificationsInv'
<1>1. /\ chatType' = chatType
      /\ members' = [members EXCEPT ![u] = m]
      /\ Notify(u, m)
  BY DEF Commit
<1>2. /\ \A v \in Users \ {u} : members'[v] = members[v]
      /\ members'[u] = m
      /\ members' \in [Users -> Member]
  BY <1>1 DEF TypeOK
<1>3. \A b \in Bots : told'[b] = IF b = u THEN m.status ELSE told[b]
  BY <1>1 DEF Notify
<1>4. \A b \in Bots : seen'[b] =
        IF b = u THEN [v \in Users |-> "none"]
        ELSE IF members[b].status \in Admins THEN [seen[b] EXCEPT ![u] = m.status] ELSE seen[b]
  BY <1>1 DEF Notify
<1>5. m.status \in Statuses \cup {"none"}
  BY DEF Member
<1>6. told' \in [Bots -> Statuses \cup {"none"}]
  BY <1>1, <1>5 DEF Notify, TypeOK
<1>7. seen' \in [Bots -> [Users -> Statuses \cup {"none"}]]
  <2>1. ASSUME NEW b \in Bots
        PROVE  seen'[b] \in [Users -> Statuses \cup {"none"}]
    <3>1. seen[b] \in [Users -> Statuses \cup {"none"}]
      BY DEF TypeOK
    <3>2. CASE b = u
      BY <1>4, <3>2
    <3>3. CASE b # u /\ members[b].status \in Admins
      BY <1>4, <1>5, <3>1, <3>3
    <3>4. CASE b # u /\ members[b].status \notin Admins
      BY <1>4, <3>1, <3>4
    <3>5. QED
      BY <3>2, <3>3, <3>4
  <2>2. QED
    BY <1>1, <2>1 DEF Notify
<1>8. TypeOK'
  BY <1>1, <1>2, <1>6, <1>7 DEF TypeOK
<1>9. RecordsInv'
  BY <1>1, <1>2 DEF RecordsInv, WellFormed
<1>10. BotsKnowTheirStatus'
  <2> SUFFICES ASSUME NEW b \in Bots
               PROVE  told'[b] = members'[b].status
    BY DEF BotsKnowTheirStatus
  <2>1. CASE b = u
    BY <1>2, <1>3, <2>1
  <2>2. CASE b # u
    BY <1>2, <1>3, <2>2 DEF NotificationsInv, BotsKnowTheirStatus, Users
  <2>3. QED
    BY <2>1, <2>2
<1>11. AdminBotsAreUpToDate'
  <2> SUFFICES ASSUME NEW b \in Bots, members'[b].status \in Admins, NEW v \in Users
               PROVE  seen'[b][v] \in {"none", members'[v].status}
    BY DEF AdminBotsAreUpToDate
  <2>1. CASE b = u
    BY <1>4, <2>1
  <2>2. CASE b # u
    <3>1. members'[b] = members[b] /\ seen'[b] = [seen[b] EXCEPT ![u] = m.status]
      BY <1>2, <1>4, <2>2 DEF Users
    <3>2. seen[b] \in [Users -> Statuses \cup {"none"}]
      BY DEF TypeOK
    <3>3. seen[b][v] \in {"none", members[v].status}
      BY <3>1 DEF NotificationsInv, AdminBotsAreUpToDate
    <3>4. CASE v = u
      BY <1>2, <3>1, <3>2, <3>4
    <3>5. CASE v # u
      BY <1>2, <3>1, <3>2, <3>3, <3>5
    <3>6. QED
      BY <3>4, <3>5
  <2>3. QED
    BY <2>1, <2>2
<1>12. QED
  BY <1>8, <1>9, <1>10, <1>11 DEF NotificationsInv

-----------------------------------------------------------------------------
IInv == TypeOK /\ RecordsInv /\ NotificationsInv

LEMMA InitIInv == Init => IInv
<1> SUFFICES ASSUME Init
             PROVE  IInv
  OBVIOUS
<1>1. \A u \in Users : WellFormed(u, members[u])
  BY DEF Init, Fresh, WellFormed, Member, Statuses, Active
<1>2. TypeOK
  BY <1>1 DEF Init, TypeOK, WellFormed, Fresh
<1>3. NotificationsInv
  <2>1. \A b \in Bots : b # Creator /\ b \in Users
    BY UsersAssumption DEF Users
  <2>2. \A b \in Bots : members[b].status = "none"
    BY <2>1 DEF Init, Fresh
  <2>3. QED
    BY <2>2 DEF Init, NotificationsInv, BotsKnowTheirStatus, AdminBotsAreUpToDate
<1>4. QED
  BY <1>1, <1>2, <1>3 DEF IInv, RecordsInv

LEMMA NextIInv == IInv /\ [Next]_vars => IInv'
<1>1. CASE Next
  BY <1>1, StepCommits, CommitKeeps DEF IInv
<1>2. CASE UNCHANGED vars
  BY <1>2 DEF vars, IInv, TypeOK, RecordsInv, WellFormed, NotificationsInv,
              BotsKnowTheirStatus, AdminBotsAreUpToDate
<1>3. QED
  BY <1>1, <1>2

LEMMA Invariant == Spec => []IInv
BY InitIInv, NextIInv, PTL DEF Spec

(* Every record has its type in every reachable state.                     *)
THEOREM MembershipType == Spec => []TypeOK
<1>1. IInv => TypeOK
  BY DEF IInv
<1>2. QED
  BY <1>1, Invariant, PTL

(* No right and no debt to a bot survives the end of an administrator's    *)
(* life, whichever interface ends it.                                      *)
THEOREM NoRightsLeft == Spec => []MembersHaveNoRights
<1>1. IInv => MembersHaveNoRights
  BY DEF IInv, RecordsInv, WellFormed, MembersHaveNoRights
<1>2. QED
  BY <1>1, Invariant, PTL

(* Any right implies can_manage_chat.                                      *)
THEOREM ManageIsImplied == Spec => []RightsImplyManage
<1>1. IInv => RightsImplyManage
  BY DEF IInv, RecordsInv, WellFormed, RightsImplyManage
<1>2. QED
  BY <1>1, Invariant, PTL

(* A basic group never has a banned member, a channel never a plain bot.   *)
THEOREM ChatTypeRules == Spec => []ChatTypeIsRespected
<1>1. IInv => ChatTypeIsRespected
  BY DEF IInv, RecordsInv, WellFormed, ChatTypeIsRespected, NoBanInBasicGroup,
         ChannelBotsAreAdmins, Users
<1>2. QED
  BY <1>1, Invariant, PTL

(* The my_chat_member updates tell a bot its status, always, and the       *)
(* chat_member updates keep an administrator bot up to date.               *)
THEOREM BotsAreTold == Spec => []BotsAreUpToDate
<1>1. IInv => BotsAreUpToDate
  BY DEF IInv, NotificationsInv, BotsAreUpToDate
<1>2. QED
  BY <1>1, Invariant, PTL

(* A ban ends only by an unban or a grant of rights: every operation's     *)
(* record for a banned user is "kicked", "left" or an administrator's, and *)
(* "left" is written by unbanChatMember alone.                             *)
THEOREM BansAreKept == Spec => BansHold
<1> DEFINE Restricts == \E b \in Bots : InChat(b) /\ HasFlag(b, Restrict)
           Kept(u) == \/ members'[u].status \in {"kicked", "administrator"}
                      \/ members'[u].status = "left" /\ Restricts
<1>1. ASSUME IInv, Next, NEW u \in Users, members[u].status = "kicked"
      PROVE  Kept(u)
  <2>1. chatType # "group" /\ members \in [Users -> Member]
    BY <1>1 DEF IInv, TypeOK, RecordsInv, WellFormed
  <2>2. ASSUME NEW v \in Users, NEW m, Commit(v, m),
               v = u => \/ m.status \in {"kicked", "administrator"}
                        \/ m.status = "left" /\ Restricts
        PROVE  Kept(u)
    BY <1>1, <2>1, <2>2 DEF Commit
  <2> HIDE DEF Kept
  <2>3. ASSUME NEW a \in Users, NEW v \in Users, NEW status, NEW flags,
               AddMember(a, v, status, flags)
        PROVE  Kept(u)
    <3>1. PICK m : Commit(v, m)
      BY <2>3 DEF AddMember
    <3>2. v # u
      BY <1>1, <2>3 DEF AddMember
    <3>3. QED
      BY <2>2, <3>1, <3>2
  <2>4. ASSUME NEW a \in Users, NEW v \in Users, NEW status, NEW flags,
               UserPatch(a, v, status, flags) \/ AdminPatch(a, v, status, flags)
        PROVE  Kept(u)
    <3>1. PICK m : /\ Commit(v, m)
                   /\ members[v].status # "administrator" =>
                          m = GrantedByPerson(a, flags) \/ m = members[v]
      BY <2>4 DEF PatchMember, UserPatch, AdminPatch
    <3>2. v = u => m.status \in {"kicked", "administrator"}
      BY <1>1, <3>1 DEF GrantedByPerson, Fresh
    <3>3. QED
      BY <2>2, <3>1, <3>2
  <2>5. ASSUME NEW a \in Users, NEW v \in Users, RemoveMember(a, v)
        PROVE  Kept(u)
    <3>1. Commit(v, [members[v] EXCEPT !.status = RemovedAs(a, v)])
      BY <2>5 DEF RemoveMember
    <3>2. v = u => RemovedAs(a, v) = "kicked"
      BY <1>1, <2>1, <2>5 DEF RemoveMember, RemovedAs, InChat, Active
    <3>3. v = u => [members[v] EXCEPT !.status = RemovedAs(a, v)].status = "kicked"
      BY <2>1, <3>2 DEF Member
    <3>4. QED
      BY <2>2, <3>1, <3>3
  <2>6. ASSUME NEW b \in Bots, LeaveChat(b)
        PROVE  Kept(u)
    <3>1. PICK m : Commit(b, m)
      BY <2>6 DEF LeaveChat
    <3>2. b # u /\ b \in Users
      BY <1>1, <2>6 DEF LeaveChat, InChat, Active, Users
    <3>3. QED
      BY <2>2, <3>1, <3>2
  <2>7. ASSUME NEW b \in Bots, NEW v \in Users, BanMember(b, v)
        PROVE  Kept(u)
    <3>1. Commit(v, [members[v] EXCEPT !.status = "kicked"])
      BY <2>1, <2>7 DEF BanMember, BannedAs
    <3>2. [members[v] EXCEPT !.status = "kicked"].status = "kicked"
      BY <2>1 DEF Member
    <3>3. QED
      BY <2>2, <3>1, <3>2
  <2>8. ASSUME NEW b \in Bots, NEW v \in Users, NEW onlyIfBanned,
               UnbanMember(b, v, onlyIfBanned)
        PROVE  Kept(u)
    <3>1. Commit(v, [members[v] EXCEPT !.status = "left"]) /\ Restricts
      BY <2>8 DEF UnbanMember, MayUnban
    <3>2. [members[v] EXCEPT !.status = "left"].status = "left"
      BY <2>1 DEF Member
    <3>3. QED
      BY <2>2, <3>1, <3>2
  <2>9. ASSUME NEW b \in Bots, NEW v \in Users, NEW flags, PromoteMember(b, v, flags)
        PROVE  Kept(u)
    <3>1. PICK m : /\ Commit(v, m)
                   /\ members[v].status # "administrator" => m.status = "administrator"
      BY <2>9 DEF PromoteMember
    <3>2. QED
      BY <1>1, <2>2, <3>1
  <2>10. QED
    BY <1>1, <2>3, <2>4, <2>5, <2>6, <2>7, <2>8, <2>9 DEF Next, UserAdd, AdminAdd,
       UserRemove, AdminRemove
<1>2. IInv /\ [Next]_vars =>
        [\A u \in Users : members[u].status = "kicked" =>
            \/ members'[u].status \in {"kicked", "administrator"}
            \/ /\ members'[u].status = "left"
               /\ \E b \in Bots : InChat(b) /\ HasFlag(b, Restrict)]_vars
  BY <1>1
<1>3. QED
  BY <1>2, Invariant, PTL DEF Spec, BansHold

=============================================================================
