---------------------------- MODULE AccessProofs ----------------------------
(***************************************************************************)
(* The safety properties of Admission and Access for all values of the     *)
(* constants: any number of devices, nicknames, tokens, renames, edits and *)
(* restarts.                                                               *)
(*                                                                         *)
(* None of them is inductive alone.  A token lets in one device because    *)
(* the claim takes it from everyone else before anybody is let in          *)
(* (ClaimsDisjoint, JoinedSpent); a grant is justified because whatever    *)
(* nickname the agent has cached is one the device has had (NamesHeld) and *)
(* the access list is that of one configuration (GrantsSound); an edit     *)
(* comes into force because, while it has a watch on the file, the watcher *)
(* has an event for every difference between the file and its baseline     *)
(* (WatcherCurrent).                                                       *)
(***************************************************************************)
EXTENDS Access, TLAPS

-----------------------------------------------------------------------------
(* The inductive invariant.                                                *)

\* A claimed token is gone, belongs to one call, and has let nobody in yet.
ClaimsDisjoint ==
    \A d \in Device : \A t \in call[d].tok :
        /\ token[t] = "gone"
        /\ \A p \in joined : p[1] # t
        /\ \A e \in Device : t \in call[e].tok => e = d

\* The token of an admitted device cannot be claimed again.
JoinedSpent == \A p \in joined : token[p[1]] = "gone"

\* A call in progress has a nickname to write.
CallNamed == \A d \in Device : call[d].pc # "idle" => call[d].to \in Name

AdmInv == AdmTypeOK /\ AdmissionSound /\ ClaimsDisjoint /\ JoinedSpent /\ CallNamed

AgentTypeOK ==
    /\ up \in {"down", "made", "serving", "watching"} /\ stops \in 0..MaxStops
    /\ view \in [Peer -> Name \cup {NoName}]
    /\ nick \in [Peer -> Name \cup {NoName}]
    /\ disk \in [Peer -> Name \cup {NoName}]
    /\ allowed \subseteq keys /\ keys \subseteq Peer
    /\ file \in Config /\ base \in Config /\ policy \in Config
    /\ saving \in Config \cup {NoSave}
    /\ dirty \in BOOLEAN /\ edits \in 0..MaxEdits
    /\ watch \in {"idle", "publishing"} /\ watched \in BOOLEAN
    /\ sync \in {"apart", "unread", "current"}
    /\ conn \subseteq allowed /\ req \in [Peer -> SUBSET Config]
    /\ breached \in BOOLEAN

\* What the agent takes for a device's nickname is one the device has had.
NamesHeld ==
    /\ \A d \in Device : name[d] \in held[d] \cup {NoName}
    /\ \A d \in Peer : /\ view[d] \in held[d] \cup {NoName}
                       /\ nick[d] \in held[d] \cup {NoName}
                       /\ disk[d] \in held[d] \cup {NoName}

\* The access list is the one of policy, and the first half of a request in
\* progress was permitted by the configuration it was resolved under.
GrantsSound ==
    /\ acl = ShareACL(policy)
    /\ \A d \in Peer : \A c \in req[d] : Permits(c, d, "rename")
    /\ \A d \in Peer : req[d] # {} => d \in conn
    /\ ~breached

\* While its watch lasts and its last Load went well, the watcher has an event
\* for every difference between the file and its baseline; it has installed its
\* baseline whenever it is idle, unless it started apart from it; and it installs
\* nothing that it has not loaded.
WatcherCurrent ==
    /\ up # "watching" => watch = "idle" /\ sync = "apart" /\ ~watched
    /\ ~watched => sync = "apart"
    /\ (sync = "current" \/ (watched /\ watch = "publishing")) => dirty \/ base = file
    /\ (sync # "apart" /\ watch = "idle") => policy = base

IInv == AdmInv /\ AgentTypeOK /\ NamesHeld /\ GrantsSound /\ WatcherCurrent

-----------------------------------------------------------------------------
(* The hub.                                                                *)

\* The calls that Join and Rename go through.
LEMMA CallTypes ==
    /\ Idle \in Call /\ Idle.tok = {} /\ Idle.pc = "idle"
    /\ \A n \in Name, t \in Token : [pc |-> "check", to |-> n, tok |-> {t}] \in Call
    /\ \A n \in Name : [pc |-> "write", to |-> n, tok |-> {}] \in Call
  BY DEF Idle, Call

\* JoinCheck passes a call on as it is.
LEMMA CallCreate ==
    ASSUME NEW c \in Call, NEW r, r = [c EXCEPT !.pc = "create"]
    PROVE  r \in Call /\ r.tok = c.tok /\ r.to = c.to
  BY DEF Call

\* A step that claims nothing, lets nobody in and loses no token keeps what is
\* known of claims.
LEMMA ClaimsFrame ==
    ASSUME AdmInv, joined' = joined,
           token' \in [Token -> {"none", "live", "gone"}],
           \A t \in Token : token[t] = "gone" => token'[t] = "gone",
           call' \in [Device -> Call],
           \A d \in Device : call'[d].tok \subseteq call[d].tok
    PROVE  ClaimsDisjoint' /\ JoinedSpent'
  <1>1. \A d \in Device : call[d].tok \subseteq Token /\ call'[d].tok \subseteq Token
    BY DEF AdmInv, AdmTypeOK, Call
  <1>2. ClaimsDisjoint'
    BY <1>1 DEF AdmInv, ClaimsDisjoint
  <1>3. JoinedSpent'
    BY DEF AdmInv, AdmTypeOK, JoinedSpent
  <1> QED  BY <1>2, <1>3

\* A nickname that no other row has is given to d, or d's row goes.
LEMMA NameFrame ==
    ASSUME AdmInv, NEW d \in Device, NEW n \in Name \cup {NoName},
           n = NoName \/ Unique(d, n), name' = [name EXCEPT ![d] = n]
    PROVE  /\ name' \in [Device -> Name \cup {NoName}]
           /\ \A e, f \in Device : (e # f /\ name'[e] = name'[f]) => name'[e] = NoName
  <1>1. name' \in [Device -> Name \cup {NoName}]
    BY DEF AdmInv, AdmTypeOK
  <1>2. name'[d] = n /\ \A e \in Device \ {d} : name'[e] = name[e]
    BY DEF AdmInv, AdmTypeOK
  <1>3. ASSUME NEW e \in Device, NEW f \in Device, e # f, name'[e] = name'[f]
        PROVE  name'[e] = NoName
    BY <1>2, <1>3 DEF AdmInv, AdmissionSound, Unique
  <1> QED  BY <1>1, <1>3

\* What a step of the hub promises the agent.
HeldGrows ==
    /\ \A d \in Device : held[d] \subseteq held'[d]
    /\ \A d \in Device : name'[d] \in held'[d] \cup {NoName}

\* What a step that may name one device must keep.
NamesGoal ==
    /\ name' \in [Device -> Name \cup {NoName}] /\ held' \in [Device -> SUBSET Name]
    /\ \A e, f \in Device : (e # f /\ name'[e] = name'[f]) => name'[e] = NoName
    /\ HeldGrows

\* CreateDevice and UpdateDeviceNickname.
LEMMA NamedStep ==
    ASSUME AdmInv, NamesHeld, NEW d \in Device, NEW n \in Name,
           UNCHANGED <<name, held>> \/ (Unique(d, n) /\ Named(d, n))
    PROVE  NamesGoal
  <1>1. CASE UNCHANGED <<name, held>>
    BY <1>1 DEF NamesGoal, HeldGrows, AdmInv, AdmTypeOK, AdmissionSound, NamesHeld
  <1>2. CASE Unique(d, n) /\ Named(d, n)
    <2>1. /\ name' \in [Device -> Name \cup {NoName}]
          /\ \A e, f \in Device : (e # f /\ name'[e] = name'[f]) => name'[e] = NoName
      BY <1>2, NameFrame DEF Named
    <2>2. held' \in [Device -> SUBSET Name] /\ HeldGrows
      BY <1>2 DEF Named, HeldGrows, AdmInv, AdmTypeOK, NamesHeld
    <2> QED  BY <2>1, <2>2 DEF NamesGoal
  <1> QED  BY <1>1, <1>2

\* Every step of the hub keeps the hub's part of the invariant.
LEMMA AdmStep ==
    ASSUME AdmInv, NamesHeld, AdmNext
    PROVE  AdmInv' /\ HeldGrows
  <1> USE CallTypes DEF AdmInv
  <1> DEFINE Goal == AdmInv' /\ HeldGrows
  <1>1. ASSUME NEW t \in Token, IssueJoinToken(t) \/ ExpireToken(t) PROVE Goal
    <2>1. UNCHANGED <<name, call, renames, joined, held>>
      BY <1>1 DEF IssueJoinToken, ExpireToken
    <2>2. /\ token' \in [Token -> {"none", "live", "gone"}]
          /\ \A u \in Token : token[u] = "gone" => token'[u] = "gone"
      BY <1>1 DEF IssueJoinToken, ExpireToken, AdmTypeOK
    <2>3. ClaimsDisjoint' /\ JoinedSpent'
      BY <2>1, <2>2, ClaimsFrame DEF AdmTypeOK
    <2>4. AdmTypeOK' /\ AdmissionSound' /\ CallNamed'
      BY <2>1, <2>2 DEF AdmTypeOK, AdmissionSound, CallNamed
    <2>5. HeldGrows
      BY <2>1 DEF HeldGrows, NamesHeld
    <2> QED  BY <2>3, <2>4, <2>5
  <1>2. ASSUME NEW d \in Device, NEW n \in Name, RenameCheck(d, n) PROVE Goal
    <2>1. UNCHANGED <<token, name, joined, held>> /\ renames' \in 0..MaxRenames
      BY <1>2, AdmissionAssumption DEF RenameCheck, AdmTypeOK
    <2>2. /\ call' \in [Device -> Call]
          /\ \A e \in Device : call'[e].tok \subseteq call[e].tok
          /\ call'[d].to = n /\ \A e \in Device \ {d} : call'[e] = call[e]
      BY <1>2 DEF RenameCheck, AdmTypeOK
    <2>3. ClaimsDisjoint' /\ JoinedSpent'
      BY <2>1, <2>2, ClaimsFrame DEF AdmTypeOK
    <2>4. AdmTypeOK' /\ AdmissionSound'
      BY <2>1, <2>2 DEF AdmTypeOK, AdmissionSound
    <2>5. HeldGrows
      BY <2>1 DEF HeldGrows, NamesHeld
    <2>6. CallNamed'
      BY <2>2 DEF CallNamed
    <2> QED  BY <2>3, <2>4, <2>5, <2>6
  <1>3. ASSUME NEW d \in Device, NEW n \in Name, NEW t \in Token, JoinClaim(d, t, n)
        PROVE  Goal
    <2>1. UNCHANGED <<name, renames, joined, held>>
      BY <1>3 DEF JoinClaim
    <2>2. /\ token' \in [Token -> {"none", "live", "gone"}] /\ token'[t] = "gone"
          /\ token[t] = "live"
          /\ \A u \in Token : token[u] = "gone" => token'[u] = "gone"
      BY <1>3 DEF JoinClaim, Claims, AdmTypeOK
    <2>3. /\ call' \in [Device -> Call] /\ call'[d].tok = {t} /\ call'[d].to = n
          /\ \A e \in Device \ {d} : call'[e] = call[e]
      BY <1>3 DEF JoinClaim, AdmTypeOK
    <2>4. \A e \in Device : t \notin call[e].tok
      BY <2>2 DEF ClaimsDisjoint
    <2>5. \A p \in joined : p[1] # t
      BY <2>2 DEF JoinedSpent
    <2>6. \A e \in Device : call[e].tok \subseteq Token
      BY DEF AdmTypeOK, Call
    <2>7. ClaimsDisjoint'
      BY <2>1, <2>2, <2>3, <2>4, <2>5, <2>6 DEF ClaimsDisjoint
    <2>8. JoinedSpent'
      BY <2>1, <2>2 DEF JoinedSpent, AdmTypeOK
    <2>9. AdmTypeOK' /\ AdmissionSound'
      BY <2>1, <2>2, <2>3 DEF AdmTypeOK, AdmissionSound
    <2>10. HeldGrows
      BY <2>1 DEF HeldGrows, NamesHeld
    <2>11. CallNamed'
      BY <2>3 DEF CallNamed
    <2> QED  BY <2>7, <2>8, <2>9, <2>10, <2>11
  <1>4. ASSUME NEW d \in Device, JoinCheck(d) PROVE Goal
    <2>1. UNCHANGED <<token, name, renames, joined, held>>
      BY <1>4 DEF JoinCheck
    <2>2. /\ call' \in [Device -> Call]
          /\ \A e \in Device : call'[e].tok \subseteq call[e].tok
          /\ CallNamed'
      <3>1. CASE call' = [call EXCEPT ![d] = Idle]
        BY <3>1 DEF AdmTypeOK, CallNamed
      <3>2. CASE call' = [call EXCEPT ![d].pc = "create"]
        <4>1. call' = [call EXCEPT ![d] = [call[d] EXCEPT !.pc = "create"]]
          BY <3>2 DEF AdmTypeOK
        <4>2. call[d] \in Call
          BY DEF AdmTypeOK
        <4>3. call[d].to \in Name
          BY <1>4 DEF JoinCheck, CallNamed
        <4>4. PICK r : r = [call[d] EXCEPT !.pc = "create"]
          OBVIOUS
        <4>5. r \in Call /\ r.tok = call[d].tok /\ r.to = call[d].to
          BY <4>2, <4>4, CallCreate
        <4>6. call' = [call EXCEPT ![d] = r]
          BY <4>1, <4>4
        <4> QED  BY <4>3, <4>5, <4>6 DEF AdmTypeOK, CallNamed
      <3> QED  BY <1>4, <3>1, <3>2 DEF JoinCheck
    <2>3. ClaimsDisjoint' /\ JoinedSpent'
      BY <2>1, <2>2, ClaimsFrame DEF AdmTypeOK
    <2>4. AdmTypeOK' /\ AdmissionSound'
      BY <2>1, <2>2 DEF AdmTypeOK, AdmissionSound
    <2>5. HeldGrows
      BY <2>1 DEF HeldGrows, NamesHeld
    <2> QED  BY <2>2, <2>3, <2>4, <2>5
  <1>5. ASSUME NEW d \in Device, JoinCreate(d) PROVE Goal
    <2> DEFINE New == {<<t, d>> : t \in call[d].tok}
    <2>1. UNCHANGED <<token, renames>> /\ joined' \in {joined, joined \cup New}
      BY <1>5 DEF JoinCreate
    <2>2. /\ call' = [call EXCEPT ![d] = Idle] /\ call' \in [Device -> Call]
          /\ call'[d] = Idle /\ \A e \in Device \ {d} : call'[e] = call[e]
      BY <1>5 DEF JoinCreate, AdmTypeOK
    <2>3. call[d].to \in Name /\ call[d].tok \subseteq Token
      BY <1>5 DEF JoinCreate, CallNamed, AdmTypeOK, Call
    <2>4. \/ UNCHANGED <<name, held>>
          \/ Unique(d, call[d].to) /\ Named(d, call[d].to)
      BY <1>5 DEF JoinCreate
    <2>5. \A p \in New : p[1] \in call[d].tok /\ p[2] = d /\ p \in Token \X Device
      BY <2>3
    <2> HIDE DEF New
    <2>6. joined' \subseteq Token \X Device
      BY <2>1, <2>5 DEF AdmTypeOK
    <2>7. \A p, q \in joined' : p[1] = q[1] => p[2] = q[2]
      BY <2>1, <2>5 DEF AdmissionSound, ClaimsDisjoint
    <2>8. JoinedSpent'
      BY <2>1, <2>5 DEF JoinedSpent, ClaimsDisjoint
    <2>9. ClaimsDisjoint' /\ CallNamed'
      BY <2>1, <2>2, <2>5 DEF ClaimsDisjoint, CallNamed
    <2>10. NamesGoal
      BY <2>3, <2>4, NamedStep
    <2> QED  BY <2>1, <2>2, <2>6, <2>7, <2>8, <2>9, <2>10 DEF AdmTypeOK, AdmissionSound, NamesGoal
  <1>6. ASSUME NEW d \in Device, RenameWrite(d) PROVE Goal
    <2>1. UNCHANGED <<token, renames, joined>>
      BY <1>6 DEF RenameWrite
    <2>2. /\ call' \in [Device -> Call]
          /\ call'[d] = Idle /\ \A e \in Device \ {d} : call'[e] = call[e]
      BY <1>6 DEF RenameWrite, AdmTypeOK
    <2>3. ClaimsDisjoint' /\ JoinedSpent'
      BY <2>1, <2>2, ClaimsFrame DEF AdmTypeOK
    <2>4. call[d].to \in Name /\ CallNamed'
      BY <1>6, <2>2 DEF RenameWrite, CallNamed
    <2>5. \/ UNCHANGED <<name, held>>
          \/ Unique(d, call[d].to) /\ Named(d, call[d].to)
      BY <1>6 DEF RenameWrite
    <2>6. NamesGoal
      BY <2>4, <2>5, NamedStep
    <2> QED  BY <2>1, <2>2, <2>3, <2>4, <2>6 DEF AdmTypeOK, AdmissionSound, NamesGoal
  <1>7. ASSUME NEW d \in Device, Remove(d) PROVE Goal
    <2>1. UNCHANGED <<token, call, renames, joined, held>>
      BY <1>7 DEF Remove
    <2>2. ClaimsDisjoint' /\ JoinedSpent' /\ CallNamed'
      BY <2>1, ClaimsFrame DEF AdmTypeOK, CallNamed
    <2>3. /\ name' \in [Device -> Name \cup {NoName}]
          /\ \A e, f \in Device : (e # f /\ name'[e] = name'[f]) => name'[e] = NoName
      BY <1>7, NameFrame DEF Remove
    <2>4. HeldGrows
      BY <1>7 DEF Remove, HeldGrows, NamesHeld, AdmTypeOK
    <2> QED  BY <2>1, <2>2, <2>3, <2>4 DEF AdmTypeOK, AdmissionSound
  <1> QED  BY <1>1, <1>2, <1>3, <1>4, <1>5, <1>6, <1>7 DEF AdmNext

-----------------------------------------------------------------------------
(* The agent.                                                              *)

\* The configurations an agent can meet.
LEMMA ConfigTypes ==
    /\ NoShare \in Config /\ NoSave \notin Config
    /\ [toks |-> First, perms |-> "rw"] \in Config
  BY AccessAssumption DEF NoShare, NoSave, Config

\* Every edit leaves a configuration.
LEMMA EditedType ==
    ASSUME file \in Config
    PROVE  Edited \subseteq Config
  <1>1. CASE file = NoShare
    BY <1>1 DEF Edited, Config
  <1>2. CASE file # NoShare
    <2>1. file \in [toks : SUBSET Tok, perms : {"ro", "rw"}]
      BY <1>2 DEF Config
    <2>2. \A k \in Tok : [file EXCEPT !.toks = @ \cup {k}] \in Config
      BY <2>1 DEF Config
    <2>3. \A k \in Tok : [file EXCEPT !.toks = @ \ {k}] \in Config
      BY <2>1 DEF Config
    <2>4. [file EXCEPT !.perms = "ro"] \in Config /\ NoShare \in Config
      BY <2>1 DEF Config
    <2>5. file.toks \subseteq Tok
      BY <2>1
    <2> QED  BY <1>2, <2>2, <2>3, <2>4, <2>5 DEF Edited
  <1> QED  BY <1>1, <1>2

\* A request that is resolved is permitted by the configuration in force: the
\* nickname the agent goes by is one the device has had.
LEMMA ResolvedIsPermitted ==
    ASSUME AgentTypeOK, NamesHeld, GrantsSound, NEW d \in Peer,
           NEW op \in {"read", "write", "rename"}, Resolves(d, op)
    PROVE  Permits(policy, d, op)
  <1>1. /\ acl.found = (policy # NoShare) /\ acl.all = ("all" \in policy.toks)
        /\ acl.toks = policy.toks \ {"all"} /\ acl.ro = (policy.perms # "rw")
    BY DEF GrantsSound, ShareACL
  <1>2. NicknameForDeviceID(d) \in held[d] \cup {NoName}
    BY DEF NicknameForDeviceID, NamesHeld
  <1> QED  BY <1>1, <1>2 DEF Resolves, Allow, Permits

\* Steps that leave the SFTP server alone, and at most give a device a nickname.
LEMMA GrantsFrame ==
    ASSUME GrantsSound, UNCHANGED <<acl, policy, conn, req, breached>>,
           \A d \in Peer : held[d] \subseteq held'[d]
    PROVE  GrantsSound'
  BY DEF GrantsSound, Permits

\* Steps that leave the names of devices alone.
LEMMA NamesFrame ==
    ASSUME NamesHeld, UNCHANGED <<name, held, view, nick, disk>>
    PROVE  NamesHeld'
  BY DEF NamesHeld

\* Steps that leave the watcher and the file alone.
LEMMA WatcherFrame ==
    ASSUME WatcherCurrent, UNCHANGED <<up, file, dirty, base, watch, watched, policy, sync>>
    PROVE  WatcherCurrent'
  BY DEF WatcherCurrent

\* rememberNickname takes a nickname of the device.
LEMMA RememberKeeps ==
    ASSUME AgentTypeOK, NamesHeld, AdmTypeOK, NEW d \in Peer, NEW n \in held[d],
           RememberNickname(d, n)
    PROVE  /\ nick' \in [Peer -> Name \cup {NoName}]
           /\ disk' \in [Peer -> Name \cup {NoName}]
           /\ \A e \in Peer : /\ nick'[e] \in held[e] \cup {NoName}
                              /\ disk'[e] \in held[e] \cup {NoName}
  <1>1. n \in Name
    BY AccessAssumption DEF AdmTypeOK
  <1>2. nick' = [nick EXCEPT ![d] = n] /\ disk' \in {disk, nick'}
    BY DEF RememberNickname
  <1> QED  BY <1>1, <1>2 DEF AgentTypeOK, NamesHeld

\* A step of the agent's life: what was in memory is gone or read again.
LEMMA LifeStep ==
    ASSUME IInv, UNCHANGED admVars,
           \/ NewDaemon \/ StartSSH \/ RunUnwatched \/ StopAgent
           \/ \E ok \in BOOLEAN : StartConfigWatcher(ok)
    PROVE  AgentTypeOK' /\ NamesHeld' /\ GrantsSound' /\ WatcherCurrent'
  <1> DEFINE Goal == AgentTypeOK' /\ NamesHeld' /\ GrantsSound' /\ WatcherCurrent'
  <1> USE DEF IInv, nameVars, keyVars, cfgVars, aclVars, sftpVars, admVars
  <1>1. ASSUME NewDaemon PROVE Goal
    <2>1. AgentTypeOK'
      BY <1>1 DEF NewDaemon, AgentTypeOK
    <2>2. NamesHeld' /\ WatcherCurrent'
      BY <1>1 DEF NewDaemon, NamesHeld, WatcherCurrent
    <2>3. GrantsSound'
      BY <1>1 DEF NewDaemon, GrantsSound, Permits
    <2> QED  BY <2>1, <2>2, <2>3
  <1>2. ASSUME StartSSH PROVE Goal
    <2>1. AgentTypeOK'
      BY <1>2 DEF StartSSH, AgentTypeOK
    <2>2. NamesHeld' /\ WatcherCurrent'
      BY <1>2 DEF StartSSH, NamesHeld, WatcherCurrent
    <2>3. GrantsSound'
      BY <1>2, GrantsFrame DEF StartSSH
    <2> QED  BY <2>1, <2>2, <2>3
  <1>3. ASSUME NEW ok \in BOOLEAN, StartConfigWatcher(ok) PROVE Goal
    <2>1. AgentTypeOK'
      <3>1. /\ base' \in Config /\ sync' \in {"apart", "unread", "current"}
            /\ watched' = TRUE /\ up' = "watching"
        BY <1>3, ConfigTypes DEF StartConfigWatcher, AgentTypeOK
      <3>2. watched' \in BOOLEAN
        BY <3>1
      <3>3. /\ UNCHANGED <<stops, view, nick, disk, keys, allowed, file, saving>>
            /\ UNCHANGED <<dirty, edits, watch, acl, policy, conn, req, breached>>
        BY <1>3 DEF StartConfigWatcher
      <3> QED  BY <3>1, <3>2, <3>3 DEF AgentTypeOK
    <2>2. NamesHeld' /\ WatcherCurrent'
      BY <1>3 DEF StartConfigWatcher, NamesHeld, WatcherCurrent
    <2>3. GrantsSound'
      BY <1>3, GrantsFrame DEF StartConfigWatcher
    <2> QED  BY <2>1, <2>2, <2>3
  <1>4. ASSUME StopAgent PROVE Goal
    <2>1. AgentTypeOK'
      <3>1. stops' \in 0..MaxStops
        BY <1>4, AccessAssumption DEF StopAgent, AgentTypeOK
      <3>2. /\ UNCHANGED <<disk, keys, file, saving, edits, breached>>
            /\ dirty' = FALSE /\ watched' = FALSE /\ sync' = "apart" /\ up' = "down" /\ watch' = "idle"
            /\ allowed' = {} /\ conn' = {}
            /\ base' \in Config /\ policy' \in Config
        BY <1>4, ConfigTypes DEF StopAgent
      <3>3. /\ view' \in [Peer -> Name \cup {NoName}]
            /\ nick' \in [Peer -> Name \cup {NoName}] /\ req' \in [Peer -> SUBSET Config]
        BY <1>4 DEF StopAgent, NoNames
      <3> QED  BY <3>1, <3>2, <3>3 DEF AgentTypeOK
    <2>2. NamesHeld' /\ WatcherCurrent'
      BY <1>4 DEF StopAgent, NamesHeld, WatcherCurrent, NoNames
    <2>3. GrantsSound'
      BY <1>4 DEF StopAgent, GrantsSound, Permits
    <2> QED  BY <2>1, <2>2, <2>3
  <1>5. ASSUME RunUnwatched PROVE Goal
    <2>1. AgentTypeOK'
      BY <1>5 DEF RunUnwatched, AgentTypeOK
    <2>2. NamesHeld' /\ WatcherCurrent'
      BY <1>5 DEF RunUnwatched, NamesHeld, WatcherCurrent
    <2>3. GrantsSound'
      BY <1>5, GrantsFrame DEF RunUnwatched
    <2> QED  BY <2>1, <2>2, <2>3
  <1> QED  BY <1>1, <1>2, <1>3, <1>4, <1>5

\* A step of an edit, or of the watcher that takes it over.
LEMMA ConfigStepKeeps ==
    ASSUME IInv, UNCHANGED admVars, ConfigStep
    PROVE  AgentTypeOK' /\ NamesHeld' /\ GrantsSound' /\ WatcherCurrent'
  <1> DEFINE Goal == AgentTypeOK' /\ GrantsSound' /\ WatcherCurrent'
  <1> USE DEF IInv, nameVars, keyVars, cfgVars, aclVars, sftpVars, admVars
  <1>1. ASSUME NEW c \in Edited, Truncate(c) PROVE Goal
    <2>1. c \in Config
      BY EditedType DEF AgentTypeOK
    <2>2. AgentTypeOK'
      <3>1. edits' \in 0..MaxEdits
        BY <1>1, AccessAssumption DEF Truncate, AgentTypeOK
      <3>2. file' \in Config /\ saving' \in Config \cup {NoSave} /\ dirty' \in BOOLEAN
        BY <1>1, <2>1, ConfigTypes DEF Truncate, Noticed
      <3>3. /\ UNCHANGED <<up, stops, view, nick, disk, keys, allowed>>
            /\ UNCHANGED <<base, watch, watched, policy, sync, conn, req, breached>>
        BY <1>1 DEF Truncate
      <3> QED  BY <3>1, <3>2, <3>3 DEF AgentTypeOK
    <2>3. GrantsSound'
      BY <1>1, GrantsFrame DEF Truncate
    <2>4. WatcherCurrent'
      BY <1>1 DEF Truncate, Noticed, WatcherCurrent
    <2> QED  BY <2>2, <2>3, <2>4
  <1>2. ASSUME Write PROVE Goal
    <2>1. AgentTypeOK'
      BY <1>2 DEF Write, Noticed, AgentTypeOK
    <2>2. GrantsSound'
      BY <1>2, GrantsFrame DEF Write
    <2>3. WatcherCurrent'
      BY <1>2 DEF Write, Noticed, WatcherCurrent
    <2> QED  BY <2>1, <2>2, <2>3
  <1>3. ASSUME Reload PROVE Goal
    <2>1. AgentTypeOK'
      BY <1>3 DEF Reload, AgentTypeOK
    <2>2. GrantsSound'
      BY <1>3, GrantsFrame DEF Reload
    <2>3. WatcherCurrent'
      BY <1>3 DEF Reload, WatcherCurrent
    <2> QED  BY <2>1, <2>2, <2>3
  <1>4. ASSUME NEW ok \in BOOLEAN, PublishEnds(ok) PROVE Goal
    <2>1. acl' = ShareACL(base) /\ policy' = base
      BY <1>4 DEF PublishEnds, Installs
    <2>2. AgentTypeOK'
      BY <1>4, <2>1 DEF PublishEnds, AgentTypeOK
    <2>3. GrantsSound'
      BY <1>4, <2>1 DEF PublishEnds, GrantsSound, Permits
    <2>4. WatcherCurrent'
      BY <1>4, <2>1 DEF PublishEnds, WatcherCurrent
    <2> QED  BY <2>2, <2>3, <2>4
  <1>5. ASSUME ReloadFails PROVE Goal
    <2>1. AgentTypeOK'
      BY <1>5 DEF ReloadFails, AgentTypeOK
    <2>2. GrantsSound'
      BY <1>5, GrantsFrame DEF ReloadFails
    <2>3. WatcherCurrent'
      BY <1>5 DEF ReloadFails, WatcherCurrent
    <2> QED  BY <2>1, <2>2, <2>3
  <1>6. ASSUME NEW c \in Edited, SaveByRename(c) PROVE Goal
    <2>1. c \in Config
      BY EditedType DEF AgentTypeOK
    <2>2. AgentTypeOK'
      <3>1. edits' \in 0..MaxEdits
        BY <1>6, AccessAssumption DEF SaveByRename, AgentTypeOK
      <3>2. file' \in Config /\ watched' = FALSE /\ sync' = "apart"
        BY <1>6, <2>1 DEF SaveByRename
      <3>3. /\ UNCHANGED <<up, stops, view, nick, disk, keys, allowed, saving, dirty>>
            /\ UNCHANGED <<base, watch, policy, conn, req, breached>>
        BY <1>6 DEF SaveByRename
      <3> QED  BY <3>1, <3>2, <3>3 DEF AgentTypeOK
    <2>3. GrantsSound'
      BY <1>6, GrantsFrame DEF SaveByRename
    <2>4. WatcherCurrent'
      BY <1>6 DEF SaveByRename, WatcherCurrent
    <2> QED  BY <2>2, <2>3, <2>4
  <1>7. NamesHeld'
    BY NamesFrame DEF ConfigStep, Truncate, SaveByRename, Write, Reload, ReloadFails, PublishEnds
  <1> QED  BY <1>1, <1>2, <1>3, <1>4, <1>5, <1>6, <1>7 DEF ConfigStep

\* News of a peer, its connection, or one of its requests.
LEMMA PeerStepKeeps ==
    ASSUME IInv, UNCHANGED admVars, NEW d \in Peer, PeerStep(d)
    PROVE  AgentTypeOK' /\ NamesHeld' /\ GrantsSound' /\ WatcherCurrent'
  <1> DEFINE Goal == AgentTypeOK' /\ NamesHeld' /\ GrantsSound'
  <1> USE DEF IInv, nameVars, keyVars, cfgVars, aclVars, sftpVars, admVars
  <1>1. ASSUME NEW n \in held[d], HearOnline(d, n) PROVE Goal
    <2>1. n \in Name
      BY AccessAssumption DEF AdmInv, AdmTypeOK
    <2>2. /\ nick' \in [Peer -> Name \cup {NoName}]
          /\ disk' \in [Peer -> Name \cup {NoName}]
          /\ \A e \in Peer : /\ nick'[e] \in held[e] \cup {NoName}
                             /\ disk'[e] \in held[e] \cup {NoName}
      BY <1>1, RememberKeeps DEF HearOnline, AdmInv
    <2>3. view' = [view EXCEPT ![d] = n]
      BY <1>1 DEF HearOnline
    <2>4. AgentTypeOK'
      BY <1>1, <2>1, <2>2, <2>3 DEF HearOnline, AgentTypeOK
    <2>5. NamesHeld'
      BY <2>2, <2>3 DEF NamesHeld, AgentTypeOK
    <2>6. GrantsSound'
      BY <1>1, GrantsFrame DEF HearOnline
    <2> QED  BY <2>4, <2>5, <2>6
  <1>2. ASSUME NEW n \in held[d], SeedNickname(d, n) PROVE Goal
    <2>1. /\ nick' \in [Peer -> Name \cup {NoName}]
          /\ disk' \in [Peer -> Name \cup {NoName}]
          /\ \A e \in Peer : /\ nick'[e] \in held[e] \cup {NoName}
                             /\ disk'[e] \in held[e] \cup {NoName}
      BY <1>2, RememberKeeps DEF SeedNickname, AdmInv
    <2>2. AgentTypeOK'
      BY <1>2, <2>1 DEF SeedNickname, AgentTypeOK
    <2>3. NamesHeld'
      BY <1>2, <2>1 DEF SeedNickname, NamesHeld
    <2>4. GrantsSound'
      BY <1>2, GrantsFrame DEF SeedNickname
    <2> QED  BY <2>2, <2>3, <2>4
  <1>3. ASSUME HearOffline(d) PROVE Goal
    <2>1. AgentTypeOK'
      BY <1>3 DEF HearOffline, AgentTypeOK
    <2>2. NamesHeld'
      BY <1>3 DEF HearOffline, NamesHeld, AgentTypeOK
    <2>3. GrantsSound'
      BY <1>3, GrantsFrame DEF HearOffline
    <2> QED  BY <2>1, <2>2, <2>3
  <1>4. ASSUME PairingCompleted(d) PROVE Goal
    <2>1. AgentTypeOK'
      BY <1>4 DEF PairingCompleted, AgentTypeOK
    <2>2. NamesHeld' /\ GrantsSound'
      BY <1>4, NamesFrame, GrantsFrame DEF PairingCompleted
    <2> QED  BY <2>1, <2>2
  <1>5. ASSUME PairConfirm(d) PROVE Goal
    <2>1. name[d] \in Name /\ name[d] \in held[d] \cup {NoName}
      BY <1>5, AccessAssumption DEF PairConfirm, NamesHeld, AdmInv, AdmTypeOK
    <2>2. AgentTypeOK'
      BY <1>5, <2>1 DEF PairConfirm, AgentTypeOK
    <2>3. NamesHeld'
      BY <1>5, <2>1 DEF PairConfirm, NamesHeld, AgentTypeOK
    <2>4. GrantsSound'
      BY <1>5, GrantsFrame DEF PairConfirm
    <2> QED  BY <2>2, <2>3, <2>4
  <1>6. ASSUME Connect(d) PROVE Goal
    <2>1. AgentTypeOK'
      BY <1>6 DEF Connect, Authorised, AgentTypeOK
    <2>2. NamesHeld'
      BY <1>6, NamesFrame DEF Connect
    <2>3. GrantsSound'
      BY <1>6 DEF Connect, GrantsSound, Permits
    <2> QED  BY <2>1, <2>2, <2>3
  <1>7. ASSUME Disconnect(d) PROVE Goal
    <2>1. AgentTypeOK'
      BY <1>7 DEF Disconnect, AgentTypeOK
    <2>2. NamesHeld'
      BY <1>7, NamesFrame DEF Disconnect
    <2>3. GrantsSound'
      BY <1>7 DEF Disconnect, GrantsSound, Permits, AgentTypeOK
    <2> QED  BY <2>1, <2>2, <2>3
  <1>8. ASSUME NEW op \in {"read", "write", "rename"}, Request(d, op) PROVE Goal
    <2>1. Permits(policy, d, op) /\ d \in conn /\ d \in keys /\ policy \in Config
      BY <1>8, ResolvedIsPermitted DEF Request, AgentTypeOK
    <2>2. UNCHANGED <<name, held, view, nick, disk>>
      BY <1>8 DEF Request
    <2>3. ASSUME op = "rename" PROVE Goal
      <3>1. req' = [req EXCEPT ![d] = {policy}] /\ breached' = breached
        BY <1>8, <2>3 DEF Request
      <3>2. AgentTypeOK'
        BY <1>8, <2>1, <3>1 DEF Request, AgentTypeOK
      <3>3. GrantsSound'
        BY <1>8, <2>1, <2>3, <3>1 DEF Request, GrantsSound, Permits, AgentTypeOK
      <3> QED  BY <2>2, <3>2, <3>3, NamesFrame
    <2>4. ASSUME op # "rename" PROVE Goal
      <3>1. req' = req /\ Grant(d, op, {policy})
        BY <1>8, <2>4 DEF Request
      <3>2. breached' = breached
        BY <2>1, <3>1 DEF Grant, GrantsSound, AgentTypeOK
      <3>3. AgentTypeOK'
        BY <1>8, <3>1, <3>2 DEF Request, AgentTypeOK
      <3>4. GrantsSound'
        BY <1>8, <3>1, <3>2, GrantsFrame DEF Request
      <3> QED  BY <2>2, <3>3, <3>4, NamesFrame
    <2> QED  BY <2>3, <2>4
  <1>9. ASSUME RequestTarget(d) PROVE Goal
    <2>1. /\ UNCHANGED <<name, held, view, nick, disk>>
          /\ req' = [req EXCEPT ![d] = {}]
      BY <1>9 DEF RequestTarget
    <2>2. d \in keys /\ \A c \in req[d] : Permits(c, d, "rename")
      BY <1>9 DEF RequestTarget, GrantsSound, AgentTypeOK
    <2>3. breached' = breached
      <3>1. CASE TargetResolves(d)
        <4>1. Permits(policy, d, "rename")
          BY <3>1, ResolvedIsPermitted DEF TargetResolves
        <4>2. Grant(d, "rename", req[d] \cup {policy})
          BY <1>9, <3>1 DEF RequestTarget
        <4> QED  BY <2>2, <4>1, <4>2 DEF Grant, GrantsSound, AgentTypeOK
      <3>2. CASE ~TargetResolves(d)
        BY <1>9, <3>2 DEF RequestTarget
      <3> QED  BY <3>1, <3>2
    <2>4. AgentTypeOK'
      BY <1>9, <2>1, <2>3 DEF RequestTarget, AgentTypeOK
    <2>5. GrantsSound'
      BY <1>9, <2>1, <2>3 DEF RequestTarget, GrantsSound, Permits, AgentTypeOK
    <2> QED  BY <2>1, <2>4, <2>5, NamesFrame
  <1>10. WatcherCurrent'
    BY WatcherFrame DEF PeerStep, HearOnline, SeedNickname, HearOffline,
       PairingCompleted, PairConfirm, Connect, Disconnect, Request, RequestTarget
  <1> QED  BY <1>1, <1>2, <1>3, <1>4, <1>5, <1>6, <1>7, <1>8, <1>9, <1>10 DEF PeerStep

-----------------------------------------------------------------------------
(* The theorems.                                                           *)

\* The invariant holds before the first token is issued and the agent starts.
LEMMA InitIInv == Init => IInv
  <1> SUFFICES ASSUME Init PROVE IInv
    OBVIOUS
  <1> USE DEF Init
  <1>1. AdmInv
    BY CallTypes, AdmissionAssumption DEF AdmInit, AdmInv, AdmTypeOK, AdmissionSound,
       ClaimsDisjoint, JoinedSpent, CallNamed
  <1>2. AgentTypeOK
    <2>1. stops \in 0..MaxStops /\ edits \in 0..MaxEdits
      BY AccessAssumption DEF AccInit
    <2>2. /\ view \in [Peer -> Name \cup {NoName}] /\ nick \in [Peer -> Name \cup {NoName}]
          /\ disk \in [Peer -> Name \cup {NoName}] /\ req \in [Peer -> SUBSET Config]
      BY DEF AccInit, NoNames
    <2>3. /\ file \in Config /\ base \in Config /\ policy \in Config /\ saving = NoSave
          /\ dirty = FALSE /\ watched = FALSE /\ sync = "apart" /\ breached = FALSE
          /\ up = "down" /\ watch = "idle" /\ keys = {} /\ allowed = {} /\ conn = {}
      BY ConfigTypes DEF AccInit
    <2> QED  BY <2>1, <2>2, <2>3 DEF AgentTypeOK
  <1>3. NamesHeld
    BY DEF AdmInit, AccInit, NamesHeld, NoNames
  <1>4. GrantsSound /\ WatcherCurrent
    BY DEF AccInit, GrantsSound, WatcherCurrent
  <1> QED  BY <1>1, <1>2, <1>3, <1>4 DEF IInv

\* Steps of the hub, of the agent, and stuttering keep the invariant.
LEMMA NextIInv == IInv /\ [Next]_vars => IInv'
  <1> SUFFICES ASSUME IInv, [Next]_vars PROVE IInv'
    OBVIOUS
  <1>1. ASSUME AdmNext, UNCHANGED agentVars PROVE IInv'
    <2>1. AdmInv' /\ HeldGrows
      BY <1>1, AdmStep DEF IInv
    <2>2. \A d \in Peer : held[d] \subseteq held'[d]
      BY <2>1, AccessAssumption DEF HeldGrows
    <2>3. /\ UNCHANGED <<up, stops, view, nick, disk, keys, allowed, file, saving>>
          /\ UNCHANGED <<dirty, edits, base, watch, watched, acl, policy, sync>>
          /\ UNCHANGED <<conn, req, breached>>
      BY <1>1 DEF agentVars, nameVars, keyVars, cfgVars, aclVars, sftpVars
    <2>4. AgentTypeOK' /\ WatcherCurrent'
      BY <2>3 DEF IInv, AgentTypeOK, WatcherCurrent
    <2>5. GrantsSound'
      BY <2>2, <2>3, GrantsFrame DEF IInv
    <2>6. NamesHeld'
      BY <2>1, <2>2, <2>3 DEF IInv, NamesHeld, HeldGrows
    <2> QED  BY <2>1, <2>4, <2>5, <2>6 DEF IInv
  <1>2. ASSUME AgentNext, UNCHANGED admVars PROVE IInv'
    <2>1. AgentTypeOK' /\ NamesHeld' /\ GrantsSound' /\ WatcherCurrent'
      BY <1>2, LifeStep, ConfigStepKeeps, PeerStepKeeps DEF AgentNext
    <2>2. AdmInv'
      BY <1>2 DEF admVars, IInv, AdmInv, AdmTypeOK, AdmissionSound, ClaimsDisjoint,
         JoinedSpent, CallNamed
    <2> QED  BY <2>1, <2>2 DEF IInv
  <1>3. ASSUME UNCHANGED vars PROVE IInv'
    <2>1. /\ UNCHANGED <<token, name, call, renames, joined, held>>
          /\ UNCHANGED <<up, stops, view, nick, disk, keys, allowed, file, saving>>
          /\ UNCHANGED <<dirty, edits, base, watch, watched, acl, policy, sync>>
          /\ UNCHANGED <<conn, req, breached>>
      BY <1>3 DEF vars, admVars, agentVars, nameVars, keyVars, cfgVars, aclVars, sftpVars
    <2>2. AdmInv'
      BY <2>1 DEF IInv, AdmInv, AdmTypeOK, AdmissionSound, ClaimsDisjoint,
         JoinedSpent, CallNamed
    <2>3. AgentTypeOK' /\ WatcherCurrent' /\ NamesHeld'
      BY <2>1 DEF IInv, AgentTypeOK, WatcherCurrent, NamesHeld
    <2>4. GrantsSound'
      BY <2>1, GrantsFrame DEF IInv
    <2> QED  BY <2>2, <2>3, <2>4 DEF IInv
  <1> QED  BY <1>1, <1>2, <1>3 DEF Next

\* The strengthening is inductive.
THEOREM Inductive == Spec => []IInv
  BY InitIInv, NextIInv, PTL DEF Spec

\* Every variable of the hub's naming of devices and of the agent has its type,
\* and connections, authorised keys and keys on disk are nested.
THEOREM AccessTyped == Spec => []TypeOK
  <1>1. IInv => TypeOK
    BY DEF IInv, AdmInv, AgentTypeOK, TypeOK
  <1> QED  BY <1>1, Inductive, PTL

\* No two devices share a nickname, and a join token lets in one device at most,
\* although Join and Rename check and write in separate statements.
THEOREM AdmissionIsSound == Spec => []AdmissionSound
  <1>1. IInv => AdmissionSound
    BY DEF IInv, AdmInv
  <1> QED  BY <1>1, Inductive, PTL

\* The SFTP server grants only what the configurations in force while a request
\* was resolved permit, to devices that are paired.
THEOREM GrantsAreJustified == Spec => []GrantJustified
  <1>1. IInv => GrantJustified
    BY DEF IInv, GrantsSound, GrantJustified
  <1> QED  BY <1>1, Inductive, PTL

\* When the watcher has nothing left to do, the access list in force is the one
\* of the file, unless the watcher started apart from it, could not load the file
\* at the last event, or has no watch on it.
THEOREM EditsComeIntoForce == Spec => []EditInForce
  <1>1. IInv => EditInForce
    BY DEF IInv, WatcherCurrent, EditInForce
  <1> QED  BY <1>1, Inductive, PTL

=============================================================================
