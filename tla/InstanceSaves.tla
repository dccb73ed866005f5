----------------------------- MODULE InstanceSaves ----------------------------
(***************************************************************************)
(* Who is bound to which copy of a dungeon: InstanceSaveManager with its    *)
(* saves and reset events, the binds of the players and of a group, the     *)
(* loaded copies (InstanceMap, MapInstanced), and the rows of instance,     *)
(* character_instance and group_instance behind them.                       *)
(*                                                                          *)
(* One dungeon, in one difficulty for a whole behaviour (w.heroic), and one *)
(* party.  The handlers run on the world thread, the others while it waits  *)
(* for the map threads: each is one step, and its calls are operators from  *)
(* the state before a call to the state after it.  A teleport takes two     *)
(* steps, TeleportTo and the client's MSG_MOVE_WORLDPORT_ACK: in between    *)
(* the player is out of the world but is still referred to by the old map.  *)
(* A login takes two as well: the request, which has the rows read, and     *)
(* HandlePlayerLogin with what was read, some ticks later.                  *)
(* Time is left out: a scheduled event may be due, and a timer may have     *)
(* run out, at any moment.                                                  *)
(***************************************************************************)
EXTENDS Naturals, Sequences, FiniteSets

CONSTANTS
    Players,
    NumIds,     \* bound: instance ids that can be in use at once
    MaxEvents,  \* bound: reset events queued for one id
    MaxRows,    \* bound: binds one player has in the database
    MaxGroupRows, \* bound: binds the group has in the database
    MaxOpen,    \* bound: players logging in, on their way in or with a lock to answer
    None

VARIABLE w      \* the server and its database, see World
vars == <<w>>

Ids == 1..NumIds
Bind == [id : Ids, perm : BOOLEAN]
Save == [on : BOOLEAN, players : SUBSET Players, group : BOOLEAN, canReset : BOOLEAN]
Holder == [rows : SUBSET Bind, group : BOOLEAN, inside : BOOLEAN]

ASSUME InstanceSavesAssumption ==
    /\ IsFiniteSet(Players)
    /\ NumIds \in Nat \ {0}
    /\ MaxEvents \in Nat \ {0}
    /\ MaxRows \in Nat \ {0}
    /\ MaxGroupRows \in Nat \ {0}
    /\ MaxOpen \in Nat \ {0}
    /\ None \notin Players \cup Ids \cup Bind \cup Holder

NoSave == [on |-> FALSE, players |-> {}, group |-> FALSE, canReset |-> FALSE]

\* m_instanceSaveById; m_boundInstances of players and of the group; the group's
\* m_memberSlots and leader, and the players whose GetGroup() it is; players that
\* are logged in, and what a LoginQueryHolder has read for one that is about to
\* be; m_mapRefManager of a copy, the latest first; far teleports in progress;
\* m_InstanceValid; _pendingBindId; events of type 0 in m_resetTimeQueue; ids
\* MapManager holds as used; the three tables and characters.instance_id; and the
\* players that were online when the server died, while it is down.
World ==
    [heroic : BOOLEAN,
     save : [Ids -> Save],
     bind : [Players -> Bind \cup {None}],
     gbind : Bind \cup {None},
     members : Seq(Players), leader : Players \cup {None},
     linked : SUBSET Players,
     online : SUBSET Players,
     loading : [Players -> Holder \cup {None}],
     refs : [Ids -> Seq(Players)],
     far : [Players -> {"no", "in", "out"}],
     valid : [Players -> BOOLEAN],
     pending : [Players -> Ids \cup {None}],
     events : [Ids -> Nat],
     used : SUBSET Ids,
     dbInstance : SUBSET Ids,
     dbPlayer : [Players -> SUBSET Bind],
     dbGroup : SUBSET Bind,
     dbInside : SUBSET Players,
     lost : (SUBSET Players) \cup {None}]

TypeOK == w \in World

Init ==
    \E heroic \in BOOLEAN :
       w = [heroic |-> heroic,
            save |-> [i \in Ids |-> NoSave],
            bind |-> [p \in Players |-> None],
            gbind |-> None,
            members |-> <<>>, leader |-> None, linked |-> {},
            online |-> Players,
            loading |-> [p \in Players |-> None],
            refs |-> [i \in Ids |-> <<>>],
            far |-> [p \in Players |-> "no"],
            valid |-> [p \in Players |-> TRUE],
            pending |-> [p \in Players |-> None],
            events |-> [i \in Ids |-> 0],
            used |-> {},
            dbInstance |-> {},
            dbPlayer |-> [p \in Players |-> {}],
            dbGroup |-> {},
            dbInside |-> {},
            lost |-> None]

-----------------------------------------------------------------------------
(* Reading the state.                                                      *)

Running(s) == s.lost = None

Elements(seq) == {seq[k] : k \in 1..Len(seq)}
Without(seq, p) ==
    LET kept[k \in 0..Len(seq)] ==
          IF k = 0 THEN <<>>
          ELSE IF seq[k] = p THEN kept[k - 1] ELSE Append(kept[k - 1], seq[k])
    IN  kept[Len(seq)]

Grouped(s, p) == p \in s.linked
Bound(b, i) == b # None /\ b.id = i

\* The copies whose m_mapRefManager has p: one at most.
At(s, p) == {i \in Ids : p \in Elements(s.refs[i])}
HavePlayers(s, i) == s.refs[i] # <<>>

\* ObjectAccessor::FindPlayer finds only players that are in the world.
FindPlayer(s, p) == p \in s.online /\ s.far[p] = "no"

-----------------------------------------------------------------------------
(* InstanceSave and InstanceSaveManager.                                   *)

\* Mutant: groups are forgotten.
UnloadIfEmpty_PlayersOnly(s, i) ==
    IF s.save[i].players = {} THEN [s EXCEPT !.save[i] = NoSave] ELSE s

\* RemoveInstanceSave, if nobody is bound any more.
UnloadIfEmpty(s, i) ==
    IF s.save[i].players = {} /\ ~s.save[i].group
    THEN [s EXCEPT !.save[i] = NoSave] ELSE s

RemovePlayer(s, i, p) ==
    UnloadIfEmpty([s EXCEPT !.save[i].players = @ \ {p}], i)
RemoveGroup(s, i) == UnloadIfEmpty([s EXCEPT !.save[i].group = FALSE], i)

\* A new save of a normal dungeon schedules its reset; one that is loaded has
\* its reset time from the database.
AddInstanceSave(s, i, canReset, load) ==
    IF s.save[i].on THEN s
    ELSE [s EXCEPT !.save[i] = [NoSave EXCEPT !.on = TRUE, !.canReset = canReset],
                   !.events[i] = IF s.heroic \/ load THEN @ ELSE @ + 1,
                   !.dbInstance = IF load THEN @ ELSE @ \cup {i}]

DeleteInstanceFromDB(s, i) ==
    [s EXCEPT !.dbInstance = @ \ {i},
              !.dbPlayer = [p \in Players |-> {b \in @[p] : b.id # i}],
              !.dbGroup = {b \in @ : b.id # i}]

\* Unbinds everyone, without deleting rows or unloading the save on the way.
ResetSave(s, i) ==
    IF ~s.save[i].on THEN s
    ELSE [s EXCEPT !.bind = [p \in Players |->
                                IF p \in s.save[i].players THEN None ELSE @[p]],
                   !.gbind = IF s.save[i].group THEN None ELSE @,
                   !.save[i] = NoSave]

-----------------------------------------------------------------------------
(* The binds of a player and of the group.                                 *)

\* The row: INSERT, or UPDATE of the old bind's; neither writes a second row with
\* the key (guid, instance).
SavePlayerBind(s, p, new) ==
    LET others == IF s.bind[p] = None THEN s.dbPlayer[p]
                  ELSE {b \in s.dbPlayer[p] : b.id # s.bind[p].id}
    IN  IF \/ \E b \in others : b.id = new.id
           \/ s.bind[p] # None /\ others = s.dbPlayer[p]
        THEN s
        ELSE [s EXCEPT !.dbPlayer[p] = others \cup {new}]

ListPlayer(s, p, i) ==
    IF Bound(s.bind[p], i) THEN s
    ELSE [IF s.bind[p] = None THEN s ELSE RemovePlayer(s, s.bind[p].id, p)
            EXCEPT !.save[i].players = @ \cup {p}]

BindPlayer(s, p, i, perm, load) ==
    LET new == [id |-> i, perm |-> perm]
    IN  [ListPlayer(IF load THEN s ELSE SavePlayerBind(s, p, new), p, i)
            EXCEPT !.save[i].canReset = @ /\ ~perm, !.bind[p] = new]

ListGroup(s, i) ==
    IF Bound(s.gbind, i) THEN s
    ELSE [IF s.gbind = None THEN s ELSE RemoveGroup(s, s.gbind.id)
            EXCEPT !.save[i].group = TRUE]

\* REPLACE INTO group_instance; the row of the old bind stays.
BindGroup(s, i, perm, load) ==
    LET new == [id |-> i, perm |-> perm]
        SaveRow(t) == IF load \/ t.gbind = new THEN t
                      ELSE [t EXCEPT !.dbGroup = {b \in @ : b.id # i} \cup {new}]
    IN  [ListGroup(SaveRow(s), i) EXCEPT !.gbind = new]

\* Player::UnbindInstance, with the row.
UnbindPlayer(s, p) ==
    LET i == s.bind[p].id
    IN  [RemovePlayer([s EXCEPT !.dbPlayer[p] = {b \in @ : b.id # i}], i, p)
            EXCEPT !.bind[p] = None]

\* Copies p's bind to the group; a new leader gives up a solo bind.
ConvertInstancesToGroup(s, p, switchLeader) ==
    LET GiveUp(t) == IF switchLeader /\ ~t.bind[p].perm THEN UnbindPlayer(t, p) ELSE t
    IN  IF s.bind[p] = None THEN s
        ELSE GiveUp(BindGroup(s, s.bind[p].id, s.bind[p].perm, FALSE))

-----------------------------------------------------------------------------
(* The copies of the dungeon: MapInstanced and InstanceMap.                *)

\* The lowest id that is not used, see InstanceIds.
GenerateInstanceId(s) ==
    CHOOSE i \in Ids \ s.used : \A k \in Ids \ s.used : i <= k

PermBound(s, p) == s.bind[p] # None /\ s.bind[p].perm
GroupBound(s, p) == ~PermBound(s, p) /\ Grouped(s, p) /\ s.gbind # None

\* A permanent bind comes first, then the group's, then a solo bind; without
\* any, a new id.
ChosenInstance(s, p) ==
    IF GroupBound(s, p) THEN s.gbind.id
    ELSE IF s.bind[p] # None THEN s.bind[p].id
    ELSE GenerateInstanceId(s)

\* The bound NumIds: no step needs an id when all are used.
HasInstance(s, p) ==
    s.bind[p] # None \/ GroupBound(s, p) \/ s.used # Ids

\* Mutant: the id of a new copy is not registered.
CreateInstanceForPlayer_Unregistered(s, p) == s

\* The copy is loaded if it is not.  Only a new id is registered.
CreateInstanceForPlayer(s, p) ==
    IF s.bind[p] # None \/ GroupBound(s, p) THEN s
    ELSE [s EXCEPT !.used = @ \cup {GenerateInstanceId(s)}]

\* Only for normal dungeons without players, and with a save.
SetResetSchedule(s, i, on) ==
    IF s.heroic \/ HavePlayers(s, i) \/ ~s.save[i].on THEN s
    ELSE IF on THEN [s EXCEPT !.events[i] = @ + 1]
    ELSE [s EXCEPT !.events[i] = IF @ > 0 THEN @ - 1 ELSE 0]

\* A copy in use lets in only the party of the player that entered last.
CanEnter(s, p, i) ==
    HavePlayers(s, i) => Grouped(s, p) /\ Grouped(s, Head(s.refs[i]))

\* The early returns of InstanceMap::AddPlayerToMap, after the save was added.
Refused(s, p, i) ==
    \/ PermBound(s, p) /\ ~Bound(s.bind[p], i)
    \/ /\ ~PermBound(s, p)
       /\ Grouped(s, p)
       /\ \E b \in {s.bind[p], s.gbind} \ {None} : b.id # i

\* The bind a player gets who is let in.  A solo player's own bind has led here:
\* its difficulty, the player's, and the copy's are one.
BindAtEntry(s, p, i) ==
    CASE PermBound(s, p) -> s
      [] ~PermBound(s, p) /\ Grouped(s, p) ->
            IF s.gbind = None THEN BindGroup(s, i, FALSE, FALSE)
            ELSE IF s.gbind.perm THEN [s EXCEPT !.pending[p] = i]
            ELSE s
      [] ~PermBound(s, p) /\ ~Grouped(s, p) ->
            IF s.bind[p] = None THEN BindPlayer(s, p, i, FALSE, FALSE) ELSE s

Link(s, p, i) == [s EXCEPT !.refs[i] = <<p>> \o @]
Unlink(s, p) == [s EXCEPT !.refs = [i \in Ids |-> Without(@[i], p)]]

\* SetMap has already linked the player.
AddPlayerToMap(s, p, i) ==
    LET Add(t) == IF Refused(t, p, i) THEN [t EXCEPT !.far[p] = "out"]
                  ELSE [SetResetSchedule(BindAtEntry(t, p, i), i, FALSE)
                          EXCEPT !.far[p] = "no"]
    IN  Add(AddInstanceSave(s, i, TRUE, FALSE))

\* Only a player that is deleted is unlinked here.
RemovePlayerFromMap(s, p, i, remove) ==
    SetResetSchedule(IF remove THEN Unlink(s, p) ELSE s, i, TRUE)

\* Player::TeleportTo a place outside: out of the world first, if in it.
TeleportOut(s, p) ==
    LET left == IF s.far[p] = "no"
                THEN RemovePlayerFromMap(s, p, CHOOSE i \in At(s, p) : TRUE, FALSE)
                ELSE s
    IN  [left EXCEPT !.far[p] = "out"]

Inside(s, p) == At(s, p) # {}

\* RepopAtGraveyard, or home: out of the dungeon.
SendOut(s, p) == IF Inside(s, p) THEN TeleportOut(s, p) ELSE s

\* The far side of HandleMoveWorldportAckOpcode: a player the copy does not let in,
\* or does not add, is sent back.
EnterCopy(s, p, i) ==
    LET Back(t) == IF t.far[p] = "out" THEN Unlink(t, p) ELSE t
    IN  IF CanEnter(s, p, i) THEN Back(AddPlayerToMap(Link(s, p, i), p, i))
        ELSE [s EXCEPT !.far[p] = "out"]

WorldportAck(s, p) ==
    CASE s.far[p] = "no" -> s
      [] s.far[p] = "out" ->
            [Unlink(s, p) EXCEPT !.far[p] = "no", !.valid[p] = TRUE]
      [] s.far[p] = "in" ->
            EnterCopy(CreateInstanceForPlayer(s, p), p, ChosenInstance(s, p))

\* What InstanceMap::Reset answers; an empty copy it unloads.
Reset(s, i) == ~HavePlayers(s, i)

-----------------------------------------------------------------------------
(* Resets on behalf of a player or the group.  Method "all" is the opcode,  *)
(* "change" another difficulty, "join" and "disband" the group's changes.   *)

\* Mutant: CanReset is not asked.
ResetSolo_Any(s, p, method) ==
    IF s.bind[p] = None \/ (method = "all" /\ s.heroic) \/ ~Reset(s, s.bind[p].id) THEN s
    ELSE RemovePlayer([DeleteInstanceFromDB(s, s.bind[p].id) EXCEPT !.bind[p] = None],
                      s.bind[p].id, p)

\* Player::ResetInstances
ResetSolo(s, p, method) ==
    LET i == s.bind[p].id
    IN  IF \/ s.bind[p] = None
           \/ ~s.save[i].canReset
           \/ method = "all" /\ s.heroic
           \/ ~Reset(s, i)
        THEN s
        ELSE RemovePlayer(
                [DeleteInstanceFromDB(s, i) EXCEPT !.bind[p] = None], i, p)

\* Group::ResetInstances: what others hold permanently is only unbound.
ResetGroup(s, method) ==
    LET i == s.gbind.id
        canReset == s.save[i].canReset
        s1 == IF canReset THEN DeleteInstanceFromDB(s, i)
              ELSE [s EXCEPT !.dbGroup = {b \in @ : b.id # i}]
    IN  IF \/ s.gbind = None
           \/ ~canReset /\ method # "disband"
           \/ method = "all" /\ (s.heroic \/ ~Reset(s, i))
        THEN s
        ELSE RemoveGroup([s1 EXCEPT !.gbind = None], i)

-----------------------------------------------------------------------------
(* The group.                                                              *)

\* _homebindIfInstance, for the players found in the world.
Homebind(s, leaving) ==
    [s EXCEPT !.valid = [p \in Players |->
        @[p] /\ ~(p \in leaving /\ FindPlayer(s, p) /\ Inside(s, p))]]

Disband(s) ==
    ResetGroup([Homebind(s, Elements(s.members))
                  EXCEPT !.members = <<>>, !.leader = None, !.linked = {}], "disband")

\* Members in another copy than the new leader are sent out: TeleportOut of each,
\* which schedules nothing while the copy refers to the player.
SendOthersOut(s, l) ==
    [s EXCEPT !.far = [m \in Players |->
        IF /\ m \in Elements(s.members)
           /\ FindPlayer(s, m) /\ Inside(s, m) /\ At(s, m) # At(s, l)
        THEN "out" ELSE @[m]]]

\* The group's permanent bind goes, with the rows of what the new leader has; the
\* new leader's bind comes.
ChangeLeader(s, l) ==
    LET DropBind(t) == IF t.gbind # None /\ t.gbind.perm
                       THEN [RemoveGroup(t, t.gbind.id) EXCEPT !.gbind = None] ELSE t
        DropRows(t) == [t EXCEPT !.dbGroup =
                          {b \in @ : ~b.perm /\ \A c \in t.dbPlayer[l] : c.id # b.id}]
    IN  [ConvertInstancesToGroup(DropRows(DropBind(SendOthersOut(s, l))), l, TRUE)
            EXCEPT !.leader = l]

\* A member that is in the group's copy may stay there.
AddMember(s, p) ==
    LET added == [s EXCEPT !.members = Append(@, p), !.linked = @ \cup {p},
                           !.valid[p] = @ \/ (s.gbind # None /\ s.gbind.id \in At(s, p))]
    IN  IF p = s.leader THEN added ELSE ResetSolo(added, p, "join")

\* A group of two is disbanded, and one that less than two players are linked to.
RemoveMember(s, p) ==
    LET Found(t) == {k \in 1..Len(t.members) : FindPlayer(t, t.members[k])}
        First(t) == t.members[CHOOSE k \in Found(t) : \A j \in Found(t) : k <= j]
        NewLeader(t) == IF t.leader = p /\ Found(t) # {}
                        THEN ChangeLeader(t, First(t)) ELSE t
        Alone(t) == Cardinality(t.linked) < 2
        Check(t) == IF Alone(t) THEN Disband(t) ELSE t
    IN  IF Len(s.members) <= 2 THEN Disband(s)
        ELSE Check(NewLeader([Homebind(s, {p}) EXCEPT !.members = Without(@, p),
                                                      !.linked = @ \ {p}]))

-----------------------------------------------------------------------------
(* Steps.                                                                  *)

InWorld(p) == FindPlayer(w, p)

Bounded ==
    /\ \A i \in Ids : w'.events[i] <= MaxEvents
    /\ \A p \in Players : Cardinality(w'.dbPlayer[p]) <= MaxRows
    /\ Cardinality(w'.dbGroup) <= MaxGroupRows

\* The bound MaxOpen: p may begin a login or a way in.  Only these lead to a lock.
MayOpen(p) ==
    LET Open(q) == \/ w.pending[q] # None \/ w.loading[q] # None
                   \/ w.far[q] = "in"
    IN  Cardinality({q \in Players \ {p} : Open(q)}) < MaxOpen

\* Player::TeleportTo the dungeon; MapManager::CanPlayerEnter asks the copy the
\* group is bound to.
GoIn(p) ==
    /\ InWorld(p)
    /\ ~Inside(w, p)
    /\ Grouped(w, p) /\ w.gbind # None => CanEnter(w, p, w.gbind.id)
    /\ MayOpen(p)
    /\ w' = [w EXCEPT !.far[p] = "in"]

\* A portal, or UpdateHomebindTime of a player whose instance is not valid.
GoOut(p) ==
    /\ InWorld(p)
    /\ Inside(w, p)
    /\ w' = TeleportOut(w, p)
    /\ Bounded

Arrive(p) ==
    /\ w.far[p] # "no"
    /\ w.far[p] = "in" => HasInstance(w, p)
    /\ w' = WorldportAck(w, p)
    /\ Bounded

\* One player of the copy, and the group if it is the leader; p has killed the boss.
LockIn(s, p, q, i) ==
    LET t == IF PermBound(s, q) THEN s ELSE BindPlayer(s, q, i, TRUE, FALSE)
    IN  IF Grouped(t, p) /\ t.leader = q THEN BindGroup(t, i, TRUE, FALSE) ELSE t

\* PermBindAllPlayers: the states after the first k players of the copy.
Lockouts(p, i) ==
    LET after[k \in 0..Len(w.refs[i])] ==
          IF k = 0 THEN w ELSE LockIn(after[k - 1], p, w.refs[i][k], i)
    IN  after

\* p's party kills a boss of a heroic dungeon.
BossKilled(p) ==
    /\ InWorld(p)
    /\ w.heroic
    /\ \E i \in At(w, p) : /\ w.save[i].on
                           /\ w' = Lockouts(p, i)[Len(w.refs[i])]
    /\ Bounded

\* Player::BindToInstance without arguments: the save may be gone.
BindPending(s, p) ==
    IF s.save[s.pending[p]].on THEN BindPlayer(s, p, s.pending[p], TRUE, FALSE) ELSE s

\* Player::Update: bound if the player is still in the instance.
PendingExpires(p) ==
    /\ InWorld(p)
    /\ w.pending[p] # None
    /\ w' = [IF w.pending[p] \in At(w, p) THEN BindPending(w, p) ELSE w
               EXCEPT !.pending[p] = None]
    /\ Bounded

\* HandleInstanceLockResponse
LockResponse(p, accept) ==
    /\ InWorld(p)
    /\ w.pending[p] # None
    /\ w' = [IF accept THEN BindPending(w, p) ELSE SendOut(w, p)
               EXCEPT !.pending[p] = None]
    /\ Bounded

\* HandleGroupAcceptOpcode: the first to accept makes the group.
GroupAccept(l, p) ==
    /\ l # p
    /\ FindPlayer(w, p) /\ ~Grouped(w, p)
    /\ LET s == IF w.members = <<>>
                THEN ConvertInstancesToGroup(
                        AddMember([w EXCEPT !.leader = l], l), l, FALSE)
                ELSE w
       IN  w' = AddMember(s, p)
    /\ IF w.members = <<>> THEN FindPlayer(w, l) ELSE l = w.leader
    /\ Bounded

\* HandleGroupDisbandOpcode, or the leader's HandleGroupUninviteGuidOpcode.
LeaveGroup(p) ==
    /\ ~Grouped(w, p) => p \in Elements(w.members) /\ Grouped(w, w.leader)
    /\ w' = RemoveMember(w, p)
    /\ Bounded

\* HandleGroupSetLeaderOpcode
SetLeader(p) ==
    /\ Grouped(w, w.leader)
    /\ p # w.leader
    /\ InWorld(p) /\ Grouped(w, p) /\ p \in Elements(w.members)
    /\ w' = ChangeLeader(w, p)
    /\ Bounded

\* HandleResetInstancesOpcode
ResetInstances(p) ==
    /\ p \in w.online
    /\ Grouped(w, p) => p = w.leader
    /\ w' = IF Grouped(w, p) THEN ResetGroup(w, "all") ELSE ResetSolo(w, p, "all")
    /\ Bounded

\* HandleSetDungeonDifficultyOpcode, to the other difficulty and back.
ChangeDifficulty(p) ==
    /\ InWorld(p)
    /\ ~Inside(w, p)
    /\ IF Grouped(w, p)
       THEN /\ p = w.leader
            /\ \A m \in w.linked : InWorld(m) /\ ~Inside(w, m)
            /\ w' = ResetGroup(w, "change")
       ELSE w' = ResetSolo(w, p, "change")
    /\ Bounded

\* InstanceSaveManager::Update, an event of type 0: _ResetInstance.
ResetInstance(i) ==
    /\ w.events[i] > 0
    /\ w' = [DeleteInstanceFromDB(ResetSave(w, i), i)
               EXCEPT !.events[i] = @ - 1, !.used = @ \ {i}]

\* The same, an event of type 4: _ResetOrWarnAll.  The ids stay used.
ResetAll ==
    /\ Running(w)
    /\ w.heroic
    /\ LET on == {i \in Ids : w.save[i].on}
       IN  w' = [w EXCEPT !.save = [i \in Ids |-> NoSave],
                          !.bind = [p \in Players |->
                              IF \E i \in on : p \in w.save[i].players THEN None ELSE @[p]],
                          !.gbind = IF \E i \in on : w.save[i].group THEN None ELSE @,
                          !.dbPlayer = [p \in Players |->
                              {b \in @[p] : b.id \notin w.dbInstance}],
                          !.dbGroup = {b \in @ : b.id \notin w.dbInstance},
                          !.dbInstance = {},
                          !.valid = [p \in Players |-> @[p] /\ ~Inside(w, p)]]

\* LogoutPlayer finishes the transfers it meets and those it starts.
FinishTransfers(s, p) == WorldportAck(WorldportAck(s, p), p)

\* An unanswered lock, or an instance that is not the player's any more.
SendHome(s, p) ==
    [IF s.pending[p] # None \/ ~s.valid[p] THEN SendOut(s, p) ELSE s
        EXCEPT !.pending[p] = None]

SavePlace(s, p) == [s EXCEPT !.dbInside = IF Inside(s, p) THEN @ \cup {p} ELSE @]

\* A player that is not disconnected leaves the party.
LeaveParty(s, p, disconnected) ==
    IF ~disconnected /\ Grouped(s, p) THEN RemoveMember(s, p) ELSE s

\* CleanupsBeforeDelete: the save may be unloaded before the player leaves the map.
Cleanups(s, p) ==
    IF s.bind[p] = None THEN s
    ELSE [RemovePlayer(s, s.bind[p].id, p) EXCEPT !.bind[p] = None]

LeaveMap(s, p) ==
    IF Inside(s, p) THEN RemovePlayerFromMap(s, p, CHOOSE i \in At(s, p) : TRUE, TRUE)
    ELSE s

Logout(p, disconnected) ==
    /\ p \in w.online
    /\ w.far[p] = "in" => HasInstance(w, p)
    /\ LET home == FinishTransfers(SendHome(FinishTransfers(w, p), p), p)
           left == LeaveParty(SavePlace(home, p), p, disconnected)
       IN  w' = [LeaveMap(Cleanups(left, p), p)
                   EXCEPT !.online = @ \ {p}, !.linked = @ \ {p}, !.valid[p] = TRUE,
                          !.far[p] = "no"]
    /\ Bounded

\* HandlePlayerLoginOpcode: what the LoginQueryHolder reads.  A bind without a row
\* of instance comes as NULL from the LEFT JOIN and has no effect later.
LoginRequest(p) ==
    /\ Running(w)
    /\ p \notin w.online
    /\ w.loading[p] = None
    /\ MayOpen(p)
    /\ w' = [w EXCEPT !.loading[p] = [rows |-> {b \in w.dbPlayer[p] : b.id \in w.dbInstance},
                                     group |-> p \in Elements(w.members),
                                     inside |-> p \in w.dbInside]]

\* The session ends before, or LoadFromDB fails.
LoginDropped(p) ==
    /\ w.loading[p] # None
    /\ w' = [w EXCEPT !.loading[p] = None]

\* _LoadGroup: the party exists, but p may have left it since.
LoadGroup(s, p) ==
    IF s.loading[p].group /\ s.members # <<>> THEN [s EXCEPT !.linked = @ \cup {p}] ELSE s

\* _LoadBoundInstances, the row of i that was read.
LoadBind(s, p, i) ==
    LET rows == {b \in s.loading[p].rows : b.id = i}
        perm == \E b \in rows : b.perm
    IN  IF rows = {} THEN s
        ELSE IF ~perm /\ Grouped(s, p)
        THEN [s EXCEPT !.dbPlayer[p] = {b \in @ : b.id # i}]
        ELSE BindPlayer(AddInstanceSave(s, i, ~perm, TRUE), p, i, perm, TRUE)

\* The states after the first k ids.
LoadBinds(s, p) ==
    LET after[k \in 0..NumIds] == IF k = 0 THEN s ELSE LoadBind(after[k - 1], p, k)
    IN  after

\* Mutant: a player may log in to a copy that others have entered.
LoginValid_Always(s, p, i) == TRUE

\* CheckInstanceLoginValid
LoginValid(s, p, i) == Grouped(s, p) \/ Len(s.refs[i]) <= 1

\* LoadFromDB and HandlePlayerLogin; the copy is chosen as at a transfer, but the
\* players in it are only counted.
EnterAtLogin(s, p, i) ==
    LET Stay(t) == IF t.far[p] = "no" /\ ~LoginValid(t, p, i) THEN TeleportOut(t, p) ELSE t
    IN  Stay(AddPlayerToMap(Link(CreateInstanceForPlayer(s, p), p, i), p, i))

Login(p) ==
    /\ w.loading[p] # None
    /\ LET s == LoadBinds(LoadGroup([w EXCEPT !.online = @ \cup {p},
                                             !.dbInside = @ \ {p}], p), p)[NumIds]
           t == [s EXCEPT !.loading[p] = None]
       IN  IF w.loading[p].inside
           THEN HasInstance(t, p) /\ w' = EnterAtLogin(t, p, ChosenInstance(t, p))
           ELSE w' = t
    /\ Bounded

-----------------------------------------------------------------------------
(* A crash and the restart.                                                *)

\* LoadInstances deletes what has expired, then instances nobody is bound to, then
\* rows of instances that do not exist.
Cleaned(s, expired) ==
    LET kept == s.dbInstance \ expired
        bound == {b.id : b \in s.dbGroup \cup UNION {s.dbPlayer[p] : p \in Players}}
        inst == kept \cap bound
    IN  [s EXCEPT !.dbInstance = inst,
                  !.dbPlayer = [p \in Players |-> {b \in @[p] : b.id \in inst}],
                  !.dbGroup = {b \in @ : b.id \in inst}]

\* LoadGroups, the row of i: COUNT(g.guid), the groups whose leader is permanently
\* bound, is passed as canReset.
LoadGroupBind(s, i) ==
    LET rows == {b \in s.dbGroup : b.id = i}
        leaders == {p \in Players : p = s.leader
                                     /\ [id |-> i, perm |-> TRUE] \in s.dbPlayer[p]}
    IN  IF rows = {} THEN s
        ELSE BindGroup(AddInstanceSave(s, i, leaders # {}, TRUE), i,
                       \E b \in rows : b.perm, TRUE)

LoadGroupBinds(s) ==
    LET after[k \in 0..NumIds] == IF k = 0 THEN s ELSE LoadGroupBind(after[k - 1], k)
    IN  after

\* The server dies.
Crash ==
    /\ Running(w)
    /\ w' = [w EXCEPT !.save = [i \in Ids |-> NoSave],
                      !.bind = [p \in Players |-> None],
                      !.gbind = None,
                      !.linked = {}, !.online = {},
                      !.loading = [p \in Players |-> None],
                      !.refs = [i \in Ids |-> <<>>],
                      !.far = [p \in Players |-> "no"],
                      !.valid = [p \in Players |-> TRUE],
                      !.pending = [p \in Players |-> None],
                      !.used = {},
                      !.events = [i \in Ids |-> 0],
                      !.lost = w.online]

\* World::SetInitialWorldSettings: LoadInstances with InitInstanceIds, then LoadGroups.
\* The place of a player that was online is the one last saved, of any age.
Restart(expired, inside) ==
    /\ w.heroic => expired \in {{}, w.dbInstance}
    /\ LET s == Cleaned(w, expired)
           loaded == [s EXCEPT !.used = s.dbInstance,
                               !.events = [i \in Ids |->
                                  IF i \in s.dbInstance /\ ~s.heroic THEN 1 ELSE 0],
                               !.dbInside = @ \cup inside, !.lost = None]
       IN  w' = LoadGroupBinds(loaded)[NumIds]

Next ==
    \/ \E p \in Players :
          \/ GoIn(p) \/ GoOut(p) \/ Arrive(p)
          \/ BossKilled(p) \/ PendingExpires(p)
          \/ \E accept \in BOOLEAN : LockResponse(p, accept)
          \/ \E l \in Players : GroupAccept(l, p)
          \/ LeaveGroup(p) \/ SetLeader(p)
          \/ ResetInstances(p) \/ ChangeDifficulty(p)
          \/ \E disconnected \in {TRUE, ~Grouped(w, p)} : Logout(p, disconnected)
          \/ LoginRequest(p) \/ LoginDropped(p) \/ Login(p)
    \/ \E i \in Ids : ResetInstance(i)
    \/ ResetAll
    \/ Crash
    \/ /\ ~Running(w)
       /\ \E expired \in SUBSET w.dbInstance, inside \in SUBSET w.lost :
             Restart(expired, inside)

Spec == Init /\ [][Next]_vars

-----------------------------------------------------------------------------
(* Correctness.                                                            *)

\* A player, or the group, points to a save exactly when the save lists it, and a
\* save is loaded exactly while somebody is listed: whatever order of binds,
\* leader changes, resets and logouts, UnloadIfEmpty leaves no pointer to a save
\* it deleted and keeps none that nobody can reach.
LinksMatch ==
    \A i \in Ids :
       /\ \A p \in Players : Bound(w.bind[p], i) <=> p \in w.save[i].players
       /\ Bound(w.gbind, i) <=> w.save[i].group
       /\ w.save[i].on <=> w.save[i].players # {} \/ w.save[i].group

\* A player that nothing is about to send out of a copy.
Staying(s, p) == FindPlayer(s, p) /\ s.valid[p]

\* Who stays in a copy without a party shares it at most with such players on
\* their way out, and therefore two that stay are of one party.
Unmixed(s) ==
    \A i \in Ids : \A p, q \in Elements(s.refs[i]) :
       p # q /\ Staying(s, q) /\ ~Grouped(s, q) => ~Grouped(s, p) /\ s.far[p] = "out"

\* And whoever has the party as its group is one of its members.
Settled(s) == Unmixed(s) /\ s.linked \subseteq Elements(s.members)

\* CanEnter, CheckInstanceLoginValid and _homebindIfInstance together let no
\* stranger stay in a copy, whatever order players join, leave, travel and are
\* sent out in; only the login of somebody with a group can bring strangers
\* together: it looks at nobody in the copy, and it links the player to a party it
\* was put out of while the login was under way.
StrangersOnlyByLogin ==
    [][~Settled(w') => \/ ~Settled(w)
                       \/ \E p \in Players : Login(p) /\ Grouped(w', p)]_vars

\* While a player is online a permanent bind is lost only at the global reset, or
\* to the permanent bind the player accepts: no reset by another player, change of
\* leader or of difficulty, or disbanding takes it.
PermBindKept ==
    [][\A p \in Players :
          PermBound(w, p) => \/ w'.bind[p] = w.bind[p]
                             \/ p \notin w'.online
                             \/ /\ LockResponse(p, TRUE)
                                /\ w'.bind[p] = [id |-> w.pending[p], perm |-> TRUE]
                             \/ ResetAll]_vars

\* The id i can be given to a new copy although a save, a row of instance or a
\* player in its copy still has it.
Reusable(s, i) ==
    /\ Running(s)
    /\ i \notin s.used
    /\ i \in s.dbInstance \/ s.save[i].on \/ HavePlayers(s, i)

\* Although heroic ids are never freed, and normal ones by any event that is due,
\* an id that is still in use becomes free in two ways only: by its reset while
\* players are in the copy (FreeInstanceId does not ask), and by a login that
\* brings back the save of an instance that was reset after its rows were read.
IdsStayUsed ==
    [][\A i \in Ids :
          Reusable(w', i) =>
             \/ Reusable(w, i)
             \/ ResetInstance(i) /\ HavePlayers(w, i)
             \/ \E p \in Players :
                   Login(p) /\ i \in {b.id : b \in w.loading[p].rows} \ w.dbInstance]_vars

\* Map.cpp: "the reset time is only scheduled when there are no payers inside".
ScheduledWhenEmpty ==
    \A i \in Ids : w.events[i] > 0 => \A p \in Elements(w.refs[i]) : ~FindPlayer(w, p)
=============================================================================
