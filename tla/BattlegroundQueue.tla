------------------------- MODULE BattlegroundQueue -------------------------
(***************************************************************************)
(* The queue of one battleground type and bracket (BattlegroundQueue), the *)
(* battlegrounds it fills (Battleground, BattlegroundMgr) and the players. *)
(*                                                                         *)
(* Everything here runs in the world thread, one operation after another,  *)
(* but for the leave that the Inactive aura makes in a map's update, which *)
(* is taken as one operation too.                                          *)
(* What makes it hard is the order in which the operations come: players   *)
(* join, answer, teleport, log out and in between the update of the queue, *)
(* the expiry of an invitation and the life of a battleground, and each of *)
(* them keeps its own record of who was invited where: the group in the    *)
(* queue (IsInvitedToBGInstanceGUID), the player (invitedToInstance), the  *)
(* battleground (m_InvitedAlliance, m_InvitedHorde) and the timed event.   *)
(*                                                                         *)
(* The state of the queue is one record, which the operators below take    *)
(* and return.  A far teleport takes a player out of the world until the   *)
(* client acknowledges it; FindPlayer does not see the player meanwhile.   *)
(***************************************************************************)
EXTENDS Integers, FiniteSets, Sequences, SequencesExt

CONSTANTS
  Alliance, Horde,    \* the players of the two teams
  MinPlayers,         \* GetMinPlayersPerTeam
  MaxPlayers,         \* GetMaxPlayersPerTeam
  InvitationType,     \* CONFIG_BATTLEGROUND_INVITATION_TYPE
  NumBgs,             \* bound: battlegrounds at a time
  MaxJoins,           \* bound: groups that join the queue
  MaxMoves,           \* bound: refusals, teleports and logouts
  Wrap                \* the invited counters are uint32: -1 reads as Wrap - 1

Players == Alliance \cup Horde
Teams == {"alliance", "horde"}
Groups == 1..MaxJoins
Bgs == 1..NumBgs
TeamOf(p) == IF p \in Alliance THEN "alliance" ELSE "horde"
Other(t) == IF t = "alliance" THEN "horde" ELSE "alliance"

ASSUME QueueConstants ==
  /\ Alliance \cap Horde = {}
  /\ {MinPlayers, MaxPlayers, NumBgs, MaxJoins, MaxMoves} \subseteq Nat \ {0}
  /\ InvitationType \in Nat
  /\ MinPlayers <= MaxPlayers /\ Wrap > MaxPlayers + Cardinality(Players)

VARIABLES
  q,       \* the queue and its battlegrounds, see Init
  place,   \* each player: in the "world", "moving" between maps, "offline"
  bgId,    \* m_bgData.bgInstanceID of each player, 0 for none
  joins, moves   \* how many of the bounded actions there were

vars == <<q, place, bgId, joins, moves>>

NoGroup == [team |-> "alliance", players |-> {}, invited |-> 0, stamp |-> 0]
NoBg == [status |-> "none", invited |-> [t \in Teams |-> 0], inside |-> {}]
NoSlot == [in |-> FALSE, bg |-> 0]

Init ==
  /\ q = [ group  |-> [g \in Groups |-> NoGroup],      \* GroupQueueInfo
           queue  |-> [k \in {"premade", "normal"} |-> [t \in Teams |-> <<>>]],
           queued |-> [p \in Players |-> 0],           \* m_QueuedPlayers
           slot   |-> [p \in Players |-> NoSlot],      \* m_bgBattlegroundQueueID
           bg     |-> [b \in Bgs |-> NoBg],
           free   |-> <<>>,                            \* BGFreeSlotQueue
           events |-> {},                              \* BGQueueRemoveEvent
           stamp  |-> 0,                               \* RemoveInviteTime of this update
           update |-> FALSE,                           \* m_QueueUpdateScheduler
           skipped |-> FALSE ]     \* history: a player was not found when invited
  /\ place = [p \in Players |-> "world"]
  /\ bgId = [p \in Players |-> 0]
  /\ joins = 0 /\ moves = 0

Unsigned(n) == n % Wrap

-----------------------------------------------------------------------------
(* Queue and counters. *)

Size(s, g) == Cardinality(s.group[g].players)

Schedule(s) == [s EXCEPT !.update = TRUE]

AddCount(s, b, t, n) == [s EXCEPT !.bg[b].invited[t] = @ + n]

(* AddGroup: a new group at the end of its queue. *)
AddGroup(s, g, t, members, kind) ==
  [s EXCEPT !.group[g] = [team |-> t, players |-> members, invited |-> 0, stamp |-> 0],
            !.queue[kind][t] = Append(@, g),
            !.queued = [p \in Players |-> IF p \in members THEN g ELSE @[p]]]

(* The player leaves the group; an empty group leaves the queue.           *)
(* Mutant: the empty group is forgotten in the premade queue.              *)
Unlist_NormalOnly(s, p, g) ==
  LET team == s.group[g].team IN
  IF s.group[g].players = {p}
    THEN [s EXCEPT !.queued[p] = 0, !.group[g] = NoGroup,
                   !.queue["normal"][team] = SelectSeq(@, LAMBDA h : h # g)]
    ELSE [s EXCEPT !.queued[p] = 0, !.group[g].players = @ \ {p}]

Unlist(s, p, g) ==
  LET team == s.group[g].team
      Off(seq) == SelectSeq(seq, LAMBDA h : h # g)
  IN
  IF s.group[g].players = {p}
    THEN [s EXCEPT !.queued[p] = 0, !.group[g] = NoGroup,
                   !.queue["normal"][team] = Off(@),
                   !.queue["premade"][team] = Off(@)]
    ELSE [s EXCEPT !.queued[p] = 0, !.group[g].players = @ \ {p}]

(* RemovePlayer: the invitation is given back if the player does not enter *)
(* and the battleground still exists.                                      *)
RemovePlayer(s, p, decrease) ==
  LET g == s.queued[p]
      b == s.group[g].invited
  IN  CASE g = 0 -> s
        [] g # 0 /\ decrease /\ b # 0 /\ s.bg[b].status # "none" ->
             AddCount(Unlist(s, p, g), b, s.group[g].team, -1)
        [] OTHER -> Unlist(s, p, g)

-----------------------------------------------------------------------------
(* Selection pools.  "next" is the iterator of FillPlayersToBG: the groups *)
(* before it have been looked at.                                          *)

EmptyPool == [groups |-> <<>>, count |-> 0, next |-> 1, full |-> FALSE]

(* SelectionPool::AddGroup; a group that does not fit is passed over while *)
(* the pool is not full.                                                   *)
PoolAddGroup(s, pool, g, desired) ==
  CASE s.group[g].invited = 0 /\ desired >= pool.count + Size(s, g) ->
         [pool EXCEPT !.groups = Append(@, g), !.count = @ + Size(s, g), !.next = @ + 1]
    [] ~(s.group[g].invited = 0 /\ desired >= pool.count + Size(s, g))
         /\ pool.count < desired -> [pool EXCEPT !.next = @ + 1]
    [] OTHER -> [pool EXCEPT !.full = TRUE]

AddWhile(s, pool, seq, desired) ==
  FoldLeft(LAMBDA acc, g : IF acc.full THEN acc ELSE PoolAddGroup(s, acc, g, desired),
           [pool EXCEPT !.full = FALSE], SubSeq(seq, pool.next, Len(seq)))

(* KickGroup: the last group of about this size, or the last of the        *)
(* largest; [pool, more]: more groups should be tried.                     *)
Abs(n) == IF n < 0 THEN -n ELSE n

KickIndex(s, pool, size) ==
  LET sizes == [i \in DOMAIN pool.groups |-> Size(s, pool.groups[i])]
      near == {i \in DOMAIN sizes : Abs(sizes[i] - size) <= 1}
      largest == {i \in DOMAIN sizes : \A j \in DOMAIN sizes : sizes[i] >= sizes[j]}
  IN  IF near # {} THEN Max(near) ELSE Max(largest)

KickGroup(s, pool, size) ==
  IF pool.count = 0 THEN [pool |-> pool, more |-> TRUE]
  ELSE LET i == KickIndex(s, pool, size) IN
       [pool |-> [pool EXCEPT !.groups = RemoveAt(@, i),
                              !.count = @ - Size(s, pool.groups[i])],
        more |-> Size(s, pool.groups[i]) > size + 1]

(* GetFreeSlotsForTeam: how many more players of a team may be invited.    *)
Inside(s, b, t) == {p \in s.bg[b].inside : TeamOf(p) = t}

(* Mutant: only the players who are already inside take up room. *)
GetFreeSlotsForTeam_Inside(s, b, t) ==
  LET in == Cardinality(Inside(s, b, t)) IN
  IF s.bg[b].status \in {"join", "progress"} /\ in < MaxPlayers THEN MaxPlayers - in ELSE 0

GetFreeSlotsForTeam(s, b, t) ==
  LET mine == Unsigned(s.bg[b].invited[t])
      others == Unsigned(s.bg[b].invited[Other(t)])
      in == Cardinality(Inside(s, b, t))
      otherIn == Cardinality(Inside(s, b, Other(t)))
      room == IF mine < MaxPlayers THEN MaxPlayers - mine ELSE 0
      diff == CASE others = mine -> 1 [] others > mine -> others - mine [] OTHER -> 0
      diff3 == CASE otherIn = in -> 1
                 [] otherIn > in -> otherIn - in
                 [] otherIn < in /\ mine <= MinPlayers -> MinPlayers - mine + 1
                 [] OTHER -> 0
  IN  CASE s.bg[b].status = "join" -> room
        [] s.bg[b].status = "progress" -> Min({diff, room, diff3})
        [] OTHER -> 0

(* The cycle of FillPlayersToBG that brings the two pools to the same      *)
(* number of free places, kicking a group each time.                       *)
NormalQueue(s, t) == s.queue["normal"][t]

KickAndTry(s, pool, t, size, desired) ==
  LET kicked == KickGroup(s, pool, size) IN
  IF kicked.more THEN AddWhile(s, kicked.pool, NormalQueue(s, t), desired)
                 ELSE kicked.pool

PoolSet == [groups : Seq(Groups), count : Nat, next : Nat, full : BOOLEAN]

Balance(s, open, start) ==
  LET cycle[pools \in [Teams -> PoolSet]] ==
        LET diff == [t \in Teams |-> open[t] - pools[t].count]
            low == IF diff["alliance"] < diff["horde"] THEN "alliance" ELSE "horde"
            high == Other(low)
            size == diff[high] - diff[low]
            desired == IF open[low] >= diff[high] THEN open[low] - diff[high] ELSE 0
            tried == KickAndTry(s, pools[low], low, size, desired)
        IN  CASE size <= 1 \/ \A t \in Teams : pools[t].count = 0 -> pools
              [] size > 1 /\ tried.count = 0 /\ open[low] <= diff[high] + 1 ->
                   [pools EXCEPT ![low] = tried]
              [] size > 1 /\ tried.count = 0 /\ open[low] > diff[high] + 1 ->
                   cycle[[pools EXCEPT ![low] = tried,
                                       ![high] = KickGroup(s, @, size).pool]]
              [] OTHER -> cycle[[pools EXCEPT ![low] = tried]]
  IN  cycle[start]

FillPlayersToBG(s, b) ==
  LET open == [t \in Teams |-> GetFreeSlotsForTeam(s, b, t)]
      pools == [t \in Teams |-> AddWhile(s, EmptyPool, NormalQueue(s, t), open[t])]
  IN  IF InvitationType = 0 THEN pools ELSE Balance(s, open, pools)

-----------------------------------------------------------------------------
(* Invitations. *)

(* InviteGroupToBG: the group is invited, and each of its players that is  *)
(* found; for each of these an event takes the invitation back later.      *)
InviteGroupToBG(s, g, b) ==
  LET found == {p \in s.group[g].players : place[p] = "world"}
  IN  [s EXCEPT !.group[g].invited = b,
                !.group[g].stamp = s.stamp,
                !.bg[b].invited[s.group[g].team] = @ + Cardinality(found),
                !.slot = [p \in Players |->
                            IF p \in found /\ @[p].in THEN [@[p] EXCEPT !.bg = b] ELSE @[p]],
                !.events = @ \cup {[player |-> p, bg |-> b, stamp |-> s.stamp] : p \in found},
                !.skipped = @ \/ found # s.group[g].players]

InviteSelected(s, pools, b) ==
  FoldLeft(LAMBDA acc, g : InviteGroupToBG(acc, g, b), s,
           pools["alliance"].groups \o pools["horde"].groups)

(* The free slot queue; StartBattleground puts a battleground at its head. *)
AddToFree(s, b) == IF Contains(s.free, b) THEN s ELSE [s EXCEPT !.free = <<b>> \o @]

RemoveFromFree(s, b) == [s EXCEPT !.free = SelectSeq(@, LAMBDA c : c # b)]

HasFreeSlots(s, b) == Cardinality(s.bg[b].inside) < 2 * MaxPlayers

Fill(s, b) ==
  LET Invited(r) == InviteSelected(r, FillPlayersToBG(r, b), b)
      Listed(r) == IF HasFreeSlots(r, b) THEN r ELSE RemoveFromFree(r, b)
  IN  IF s.bg[b].status \in {"join", "progress"} THEN Listed(Invited(s)) ELSE s

(* CreateNewBattleground and StartBattleground; there is none to be had    *)
(* when every id is taken.                                                 *)
NoId(s) == \A b \in Bgs : s.bg[b].status # "none"

NewId(s) == Min({b \in Bgs : s.bg[b].status = "none"})

StartBattleground(s, pools) ==
  LET b == NewId(s) IN
  AddToFree(InviteSelected([s EXCEPT !.bg[b] = [NoBg EXCEPT !.status = "join"]], pools, b), b)

(* CheckPremadeMatch: the first premade group of each team that is not     *)
(* invited, filled up from the normal queues to the smaller of the two.    *)
Uninvited(s, seq) == SelectSeq(seq, LAMBDA g : s.group[g].invited = 0)

PremadeMatch(s) == \A t \in Teams : Uninvited(s, s.queue["premade"][t]) # <<>>

PremadePools(s) ==
  LET first == [t \in Teams |-> PoolAddGroup(s, EmptyPool,
                                 Head(Uninvited(s, s.queue["premade"][t])), MaxPlayers)]
      size == Min({first[t].count : t \in Teams})
  IN  [t \in Teams |-> AddWhile(s, [first[t] EXCEPT !.next = 1], NormalQueue(s, t), size)]

(* Otherwise the first premade group of a team goes to the front of the    *)
(* normal queue, if it waited too long or lost too many players.           *)
MovePremade(s, expired) ==
  LET Goes(t) == /\ s.queue["premade"][t] # <<>>
                 /\ LET g == Head(s.queue["premade"][t]) IN
                    /\ s.group[g].invited = 0
                    /\ t \in expired \/ Size(s, g) < MinPlayers
  IN  [s EXCEPT !.queue = [premade |-> [t \in Teams |-> IF Goes(t) THEN Tail(@["premade"][t])
                                                                  ELSE @["premade"][t]],
                           normal |-> [t \in Teams |-> IF Goes(t)
                                        THEN <<Head(@["premade"][t])>> \o @["normal"][t]
                                        ELSE @["normal"][t]]]]

(* CheckNormalMatch: enough players of each team, then, unless the type is *)
(* 0, more groups for the team that has fewer.                             *)
EnoughPool(s, t) ==
  FoldLeft(LAMBDA acc, g : IF acc.count >= MinPlayers THEN acc
                           ELSE PoolAddGroup(s, acc, g, MaxPlayers),
           EmptyPool, NormalQueue(s, t))

Enough(pools) == \A t \in Teams : pools[t].count >= MinPlayers

NormalPools(s) ==
  LET first == [t \in Teams |-> EnoughPool(s, t)]
      low == IF first["horde"].count < first["alliance"].count THEN "horde" ELSE "alliance"
  IN  IF InvitationType # 0 /\ Enough(first)
        THEN [first EXCEPT ![low] = AddWhile(s, @, NormalQueue(s, low), first[Other(low)].count)]
        ELSE first

NormalMatch(pools) ==
  /\ Enough(pools)
  /\ InvitationType # 0 => Abs(pools["horde"].count - pools["alliance"].count) <= 2

(* BattlegroundQueueUpdate: fill the battlegrounds with free slots, then a *)
(* premade match, then a normal one.                                       *)
FillFree(s) == FoldLeft(Fill, s, s.free)

StartNormal(s) ==
  IF NormalMatch(NormalPools(s)) /\ ~NoId(s) THEN StartBattleground(s, NormalPools(s)) ELSE s

StartNew(s, expired) ==
  CASE PremadeMatch(s) /\ NoId(s) -> s
    [] PremadeMatch(s) /\ ~NoId(s) -> StartNormal(StartBattleground(s, PremadePools(s)))
    [] OTHER -> StartNormal(MovePremade(s, expired))

(* The time of an invitation matters only by comparison with the others    *)
(* that are still known; it is set for the length of an update.            *)
Now(s) == [s EXCEPT !.stamp = 1 + Max({0} \cup {e.stamp : e \in s.events}
                                          \cup {s.group[g].stamp : g \in Groups})]

BattlegroundQueueUpdate(s, expired) ==
  LET Done(r) == [r EXCEPT !.stamp = 0, !.update = FALSE] IN
  IF \A p \in Players : s.queued[p] = 0
    THEN Done(s) ELSE Done(StartNew(FillFree(Now(s)), expired))

-----------------------------------------------------------------------------
(* Joining and leaving the queue (HandleBattlemasterJoinOpcode and         *)
(* HandleBattleFieldPortOpcode).                                           *)

Enlist(members, kind) ==
  LET team == TeamOf(CHOOSE p \in members : TRUE)
      Slots(s) == [s EXCEPT !.slot = [p \in Players |->
                              IF p \in members THEN [in |-> TRUE, bg |-> 0] ELSE @[p]]]
  IN  q' = Schedule(Slots(AddGroup(q, joins + 1, team, members, kind)))

Join == joins < MaxJoins /\ joins' = joins + 1 /\ UNCHANGED moves
Move == moves < MaxMoves /\ moves' = moves + 1 /\ UNCHANGED joins

JoinSolo(p) ==
  /\ place[p] = "world" /\ bgId[p] = 0 /\ ~q.slot[p].in
  /\ Enlist({p}, "normal")
  /\ Join
  /\ UNCHANGED <<place, bgId>>

(* The leader is in the world, the others may be between two maps or       *)
(* offline: these do not join, but count for a premade group.  The largest *)
(* group the battleground takes is taken to be a whole team.               *)
JoinGroup(p) ==
  /\ place[p] = "world" /\ bgId[p] = 0 /\ Join
  /\ \E party \in SUBSET {m \in Players : TeamOf(m) = TeamOf(p)} :
       LET members == {m \in party : place[m] # "offline"} IN
       /\ p \in party /\ Cardinality(party) \in 2..MaxPlayers
       /\ \A m \in members : ~q.slot[m].in
       /\ Enlist(members, IF Cardinality(party) >= MinPlayers THEN "premade" ELSE "normal")
  /\ UNCHANGED <<place, bgId>>

ClearSlot(s, p) == [s EXCEPT !.slot[p] = NoSlot]

LeaveQueue(p) ==
  /\ place[p] = "world" /\ q.slot[p].in /\ q.queued[p] # 0
  /\ q' = Schedule(RemovePlayer(ClearSlot(q, p), p, TRUE))
  /\ Move
  /\ UNCHANGED <<place, bgId>>

(* The player accepts: out of the queue, still counted as invited, and on  *)
(* the way to the battleground.                                            *)
Exists(b) == b # 0 /\ q.bg[b].status # "none"

Invitation(p) == IF q.queued[p] = 0 THEN 0 ELSE q.group[q.queued[p]].invited

EnterBattleground(p) ==
  /\ place[p] = "world" /\ Exists(Invitation(p)) /\ q.slot[p].bg # 0
  /\ q' = RemovePlayer(q, p, FALSE)
  /\ bgId' = [bgId EXCEPT ![p] = Invitation(p)]
  /\ place' = [place EXCEPT ![p] = "moving"]
  /\ UNCHANGED <<joins, moves>>

-----------------------------------------------------------------------------
(* Travel, logout and login. *)

InBg(p) == bgId[p] # 0 /\ p \in q.bg[bgId[p]].inside

(* A far teleport between two ordinary maps, of a player who is queued.    *)
Teleport(p) ==
  /\ place[p] = "world" /\ bgId[p] = 0 /\ q.slot[p].in
  /\ place' = [place EXCEPT ![p] = "moving"]
  /\ Move
  /\ UNCHANGED <<q, bgId>>

(* HandleMoveWorldportAckOpcode: AddPlayer, if the player is invited there. *)
Arrived(p) ==
  IF Exists(bgId[p]) /\ q.slot[p].bg = bgId[p]
    THEN [q EXCEPT !.bg[bgId[p]].inside = @ \cup {p}] ELSE q

ArrivedBgId(p) == IF Exists(bgId[p]) THEN bgId[p] ELSE 0

Arrive(p) ==
  /\ place[p] = "moving"
  /\ q' = Arrived(p)
  /\ bgId' = [bgId EXCEPT ![p] = ArrivedBgId(p)]
  /\ place' = [place EXCEPT ![p] = "world"]
  /\ UNCHANGED <<joins, moves>>

(* LogoutPlayer: a transfer under way is finished first; a player inside a *)
(* battleground stays in it, offline.  The logout of a player with no slot *)
(* changes nothing here.                                                   *)
Logout(p) ==
  LET finished == IF place[p] = "moving" THEN Arrived(p) ELSE q IN
  /\ place[p] # "offline" /\ q.slot[p].in
  /\ q' = RemovePlayer(ClearSlot(finished, p), p, TRUE)
  /\ bgId' = [bgId EXCEPT ![p] = IF place[p] = "moving" THEN ArrivedBgId(p) ELSE @]
  /\ place' = [place EXCEPT ![p] = "offline"]
  /\ Move

(* RemovePlayerAtLeave for the participants in gone; only a player in the  *)
(* world is found, and loses the queue slot.                               *)
(* Mutant: the place is not given back.                                    *)
RemovePlayerAtLeave_KeepCount(b, gone) ==
  LET Out(s) == [s EXCEPT !.bg[b].inside = @ \ gone,
                          !.slot = [p \in Players |-> IF p \in gone /\ place[p] = "world"
                                                        THEN NoSlot ELSE @[p]]]
  IN  IF q.bg[b].status # "leave" THEN Schedule(AddToFree(Out(q), b)) ELSE Out(q)

RemovePlayerAtLeave(b, gone) ==
  LET Left(t) == Cardinality({p \in gone : TeamOf(p) = t})
      Out(s) == [s EXCEPT !.bg[b].inside = @ \ gone,
                          !.bg[b].invited = [t \in Teams |-> @[t] - Left(t)],
                          !.slot = [p \in Players |-> IF p \in gone /\ place[p] = "world"
                                                        THEN NoSlot ELSE @[p]]]
  IN  IF q.bg[b].status # "leave" THEN Schedule(AddToFree(Out(q), b)) ELSE Out(q)

(* LoadFromDB. *)
Login(p) ==
  /\ place[p] = "offline"
  /\ q' = CASE InBg(p) /\ q.bg[bgId[p]].status # "leave" ->
                 [q EXCEPT !.slot[p] = [in |-> TRUE, bg |-> bgId[p]]]
            [] InBg(p) /\ q.bg[bgId[p]].status = "leave" -> RemovePlayerAtLeave(bgId[p], {p})
            [] OTHER -> q
  /\ bgId' = [bgId EXCEPT ![p] = IF InBg(p) /\ q.bg[@].status # "leave" THEN @ ELSE 0]
  /\ place' = [place EXCEPT ![p] = "world"]
  /\ UNCHANGED <<joins, moves>>

-----------------------------------------------------------------------------
(* The life of a battleground (Battleground::Update). *)

(* Every one of gone is out; those in the world are sent home. *)
SentHome(b, gone) ==
  LET found == {p \in gone : place[p] = "world"} IN
  /\ q' = RemovePlayerAtLeave(b, gone)
  /\ bgId' = [p \in Players |-> IF p \in found THEN 0 ELSE bgId[p]]
  /\ place' = [p \in Players |-> IF p \in found THEN "moving" ELSE place[p]]
  /\ UNCHANGED <<joins, moves>>

(* HandleBattlefieldLeaveOpcode, or the Inactive aura. *)
LeaveBattleground(p) ==
  /\ place[p] = "world" /\ InBg(p)
  /\ SentHome(bgId[p], {p})

StartMatch(b) ==
  /\ q.bg[b].status = "join" /\ q.bg[b].inside # {}
  /\ q' = [q EXCEPT !.bg[b].status = "progress"]
  /\ UNCHANGED <<place, bgId, joins, moves>>

(* _ProcessJoin: there is no map, or SetupBattleground fails. *)
EndNow(b) ==
  /\ q.bg[b].status = "join" /\ q.bg[b].inside # {}
  /\ q' = RemoveFromFree([q EXCEPT !.bg[b].status = "leave"], b)
  /\ UNCHANGED <<place, bgId, joins, moves>>

EndBattleground(b) ==
  /\ q.bg[b].status = "progress" /\ q.bg[b].inside # {}
  /\ q' = RemoveFromFree([q EXCEPT !.bg[b].status = "leave"], b)
  /\ UNCHANGED <<place, bgId, joins, moves>>

ProcessLeave(b) ==
  /\ q.bg[b].status = "leave" /\ q.bg[b].inside # {}
  /\ SentHome(b, q.bg[b].inside)

(* Which of several offline players has been away long enough is left open. *)
ProcessOfflineQueue(b) ==
  \E p \in q.bg[b].inside :
    /\ q.bg[b].status = "progress" /\ place[p] = "offline"
    /\ SentHome(b, {p})

(* Mutant: a battleground nobody is inside is deleted, invited or not. *)
DeleteBattleground_Empty(b) ==
  /\ q.bg[b].status # "none" /\ q.bg[b].inside = {}
  /\ q' = RemoveFromFree([q EXCEPT !.bg[b] = NoBg], b)
  /\ UNCHANGED <<place, bgId, joins, moves>>

DeleteBattleground(b) ==
  /\ q.bg[b].status # "none" /\ q.bg[b].inside = {}
  /\ \A t \in Teams : Unsigned(q.bg[b].invited[t]) = 0
  /\ q' = RemoveFromFree([q EXCEPT !.bg[b] = NoBg], b)
  /\ UNCHANGED <<place, bgId, joins, moves>>

(* BGQueueRemoveEvent::Execute.  The events of one update of the queue get *)
(* the same time and are executed by the same EventProcessor::Update.      *)
IsPlayerInvited(s, e) ==
  /\ s.queued[e.player] # 0
  /\ LET g == s.group[s.queued[e.player]] IN g.invited = e.bg /\ g.stamp = e.stamp

Execute(e, s) ==
  LET p == e.player
      Expired(r) == RemovePlayer(ClearSlot(r, p), p, TRUE)
  IN  CASE ~(place[p] = "world" /\ s.slot[p].in /\ IsPlayerInvited(s, e)) -> s
        [] place[p] = "world" /\ s.slot[p].in /\ IsPlayerInvited(s, e)
             /\ Exists(e.bg) /\ s.bg[e.bg].status # "leave" -> Schedule(Expired(s))
        [] OTHER -> Expired(s)

UpdateEvents ==
  LET due == {e \in q.events : \A f \in q.events : e.stamp <= f.stamp} IN
  /\ q.events # {}
  /\ q' = FoldSet(Execute, [q EXCEPT !.events = @ \ due], due)
  /\ UNCHANGED <<place, bgId, joins, moves>>

(* BattlegroundMgr::Update runs a scheduled update of the queue; a premade *)
(* group may have waited long enough by then.                              *)
QueueUpdate ==
  \E expired \in SUBSET {t \in Teams : q.queue["premade"][t] # <<>>} :
    /\ q.update
    /\ q' = BattlegroundQueueUpdate(q, expired)
    /\ UNCHANGED <<place, bgId, joins, moves>>

Next ==
  \/ QueueUpdate
  \/ UpdateEvents
  \/ \E p \in Players : \/ JoinSolo(p) \/ JoinGroup(p) \/ LeaveQueue(p)
                        \/ EnterBattleground(p) \/ LeaveBattleground(p)
                        \/ Teleport(p) \/ Arrive(p) \/ Logout(p) \/ Login(p)
  \/ \E b \in Bgs : \/ StartMatch(b) \/ EndNow(b) \/ EndBattleground(b) \/ ProcessLeave(b)
                    \/ ProcessOfflineQueue(b) \/ DeleteBattleground(b)

Spec == Init /\ [][Next]_vars

-----------------------------------------------------------------------------
(* Properties. *)

Coming(b) == {p \in Players : bgId[p] = b /\ place[p] = "moving"}

InvitedTo(b) == {p \in Players : Invitation(p) = b}

Counted(b, t) == {p \in q.bg[b].inside \cup Coming(b) \cup InvitedTo(b) : TeamOf(p) = t}

(* As long as every invitation found its player, the two invited counters  *)
(* of a battleground are exactly the players inside it, on the way to it   *)
(* or invited to it: however they leave, no count is lost or left behind   *)
(* that would keep the battleground alive or full (IncreaseInvitedCount,   *)
(* DecreaseInvitedCount).                                                  *)
CountExact ==
  ~q.skipped => \A b \in Bgs, t \in Teams :
    q.bg[b].invited[t] = Cardinality(Counted(b, t))

(* As long as every invitation found its player, nobody is invited to, or  *)
(* on the way to, a battleground that was deleted (Battleground::Update).  *)
NoDeadInvitation ==
  ~q.skipped => \A p \in Players :
    /\ Invitation(p) # 0 => Exists(Invitation(p))
    /\ place[p] = "moving" /\ bgId[p] # 0 => Exists(bgId[p])

(* As long as every invitation found its player, an update of the queue    *)
(* that invites to a running battleground never leaves a team that gained  *)
(* players with over one more than the other, nor with too many            *)
(* (GetFreeSlotsForTeam, "do not allow to join too much players of one     *)
(* faction", and the balancing of FillPlayersToBG).                        *)
RunningBalanced ==
  [][\A b \in Bgs, t \in Teams :
       ~q'.skipped /\ q.bg[b].status = "progress" /\ q'.bg[b].invited[t] > q.bg[b].invited[t]
         => q'.bg[b].invited[t] <= Min({MaxPlayers, q'.bg[b].invited[Other(t)] + 1})]_vars

(* A queued player is in one group, in one of the two queues of the team,  *)
(* once; every listed group has players (AddGroup, RemovePlayer, the move  *)
(* from the premade to the normal queue).  As long as every invitation     *)
(* found its player, the slot a player holds, which keeps the player from  *)
(* joining again, stands for a place in the queue or in a battleground.    *)
QueueConsistent ==
  /\ \A t \in Teams :
       LET listed == q.queue["premade"][t] \o q.queue["normal"][t] IN
       /\ Len(listed) = Cardinality(ToSet(listed))
       /\ ToSet(listed) = {g \in Groups : q.group[g].players # {} /\ q.group[g].team = t}
  /\ \A g \in Groups : q.group[g].players = {p \in Players : q.queued[p] = g}
  /\ \A p \in Players :
       /\ q.queued[p] # 0 => bgId[p] = 0
       /\ ~q.skipped => (q.slot[p].in <=> q.queued[p] # 0 \/ (bgId[p] # 0 /\ place[p] # "offline"))

(* The comment of BGQueueRemoveEvent: "we must remove player in the 5.     *)
(* case even if battleground object doesn't exist!", the 5. case being     *)
(* that the player is invited and the timer expired.  So an invited player *)
(* always has an event to come that will do it.                            *)
ExpiryPending ==
  \A p \in Players : Invitation(p) # 0 =>
    [player |-> p, bg |-> Invitation(p), stamp |-> q.group[q.queued[p]].stamp] \in q.events

=============================================================================
