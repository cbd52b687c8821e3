---------------------------- MODULE DeviceProofs ----------------------------
(***************************************************************************)
(* The files of one user under any number of commands and crashes.         *)
(***************************************************************************)
EXTENDS Device, TLAPS

\* The conjuncts of TypeOK about the variables of the processes.
LocalsOK ==
  /\ pc \in [Processes -> {"idle", "look", "load", "run"} \cup Making \cup Writing]
  /\ cmd \in [Processes -> Commands]
  /\ name \in [Processes -> Names \cup {NoName}]
  /\ id \in [Processes -> Identities \cup {NoId}]
  /\ cfg \in [Processes -> Configs]

LEMMA LocalsTyped == TypeOK => LocalsOK
  BY DEF TypeOK, LocalsOK

LEMMA ExitLocals ==
  ASSUME LocalsOK, NEW p \in Processes, Exit(p)
  PROVE  LocalsOK'
  BY DEF LocalsOK, Exit, Goto, NoConfig, Commands, Configs, Making, Writing

LEMMA GotoLocals ==
  ASSUME LocalsOK, NEW p \in Processes,
         NEW place \in {"idle", "look", "load", "run"} \cup Making \cup Writing, Goto(p, place),
         UNCHANGED <<cmd, name, id, cfg>>
  PROVE  LocalsOK'
  BY DEF LocalsOK, Goto

LEMMA GenerateLocals ==
  ASSUME LocalsOK, raced \in BOOLEAN, NEW p \in Processes, Generate(p)
  PROVE  LocalsOK' /\ raced' \in BOOLEAN
  BY DEF LocalsOK, Generate, Goto, Making

LEMMA MaySendTypes ==
  ASSUME TypeOK, OwnIdentity, NEW p \in Processes, MaySend(p)
  PROVE  late' \in SUBSET Profiles /\ used' \in SUBSET Identities
<1>1. CASE UNCHANGED <<late, used>>
  BY <1>1 DEF TypeOK
<1>2. CASE pc[p] = "run" /\ Seen(p)
  <2>1. id[p] \in Identities
    BY <1>2 DEF OwnIdentity, Past
  <2>2. cmd[p] = "publish" => [name |-> name[p], device |-> id[p]] \in Profiles
    BY <2>1 DEF OwnIdentity, Profiles
  <2>3. late' \in SUBSET Profiles
    BY <2>2 DEF MaySend, TypeOK
  <2> QED
    BY <1>2, <2>1, <2>3 DEF Seen, TypeOK
<1> QED
  BY <1>1, <1>2 DEF MaySend

\* A new identity is made over no other: while another process makes one or works
\* with one, the two have raced.
LEMMA GenerateOwn ==
  ASSUME IInv, NEW p \in Processes, Generate(p), ident \notin Identities,
         UNCHANGED <<entries, late, ident, used>>
  PROVE  OwnIdentity'
<1> USE DEF IInv, TypeOK, OwnIdentity, OneIdentity, Others, Past, Making, Writing, Generate, Goto
<1>1. ~raced => used = {}
  OBVIOUS
<1>2. ~raced' => ~raced /\ ~Others(p, Making)
  OBVIOUS
<1>3. ~raced => ~Others(p, Past)
  OBVIOUS
<1>4. \A q \in Processes \ {p} : pc'[q] = pc[q] /\ id'[q] = id[q]
  OBVIOUS
<1>5. pc'[p] = "openIdent" /\ id'[p] \in Identities
  OBVIOUS
<1>6. ~raced' => \A q \in Processes \ {p} : pc'[q] \notin Making \cup Past
  BY <1>2, <1>3, <1>4
<1> QED
  BY <1>1, <1>2, <1>4, <1>5, <1>6

\* A step of p that does not bring it to write client.json, and does not touch it.
LEMMA OtherWrites ==
  ASSUME TypeOK, WritesServer, NEW p \in Processes,
         \A q \in Processes \ {p} : pc'[q] = pc[q] /\ cmd'[q] = cmd[q] /\ cfg'[q] = cfg[q],
         pc'[p] \notin {"readConfig", "openConfig", "writeConfig"},
         UNCHANGED <<config, registered, hurt>>
  PROVE  WritesServer'
  BY DEF TypeOK, WritesServer, Others

\* The same of the nickname and its entry.
LEMMA OtherNickname ==
  ASSUME IInv, NEW p \in Processes,
         \A q \in Processes \ {p} : /\ pc'[q] = pc[q] /\ cmd'[q] = cmd[q]
                                    /\ name'[q] = name[q] /\ cfg'[q] = cfg[q],
         pc'[p] \notin Writing, cmd'[p] = "publish" => cmd[p] = "publish",
         UNCHANGED <<entries, config, ident, taken, unsaved, overlapped>>,
         used \subseteq used', raced => raced'
  PROVE  NicknameInv'
  BY DEF IInv, TypeOK, NicknameInv, FiledByName, Ours, Writing

\* A step of p that writes the identity file: nothing was connected or named yet,
\* unless two made identities together.
LEMMA IdentNickname ==
  ASSUME IInv, NEW p \in Processes, pc[p] \in Making,
         \A q \in Processes \ {p} : /\ pc'[q] = pc[q] /\ cmd'[q] = cmd[q]
                                    /\ name'[q] = name[q] /\ cfg'[q] = cfg[q],
         pc'[p] \notin Writing, cmd'[p] = "publish" => cmd[p] = "publish",
         UNCHANGED <<entries, config, taken, unsaved, overlapped, used, raced>>
  PROVE  NicknameInv'
<1>1. ~raced => used = {} /\ \A q \in Processes : pc[q] \notin Writing
  BY DEF IInv, OwnIdentity, Others, Past, Making, Writing
<1>2. FiledByName'
  BY DEF IInv, NicknameInv, FiledByName
<1>3. \A q \in Processes :
        /\ pc'[q] \in Writing => used' # {}
        /\ pc'[q] \in {"openConfig", "writeConfig"} => cfg'[q].nickname = name'[q]
        /\ pc'[q] \in Writing /\ cmd'[q] = "publish" /\ ~raced' /\ ~overlapped' =>
             /\ Norm[name'[q]] \in unsaved'
             /\ Norm[name'[q]] \notin taken' => Ours(name[q])'
  BY <1>1 DEF IInv, NicknameInv, Writing
<1>4. ~overlapped' =>
        \A q, r \in Processes : cmd'[q] = "publish" /\ cmd'[r] = "publish" => q = r
  BY DEF IInv, NicknameInv
<1>5. config' \in Configs /\ config'.nickname # NoName => used # {} /\ raced
  BY <1>1 DEF IInv, NicknameInv
<1> QED
  BY <1>2, <1>3, <1>4, <1>5 DEF NicknameInv

LEMMA TypeNext == IInv /\ [Next]_vars => TypeOK'
<1> SUFFICES ASSUME IInv, [Next]_vars PROVE TypeOK'
  OBVIOUS
<1> USE DeviceAssumption, DirectoryAssumption DEF IInv, TypeOK, DirectoryTypeOK, OwnIdentity,
           Past, files,
          locals, outside, flags, Commands, Configs, Making, Writing
<1>1. ASSUME NEW p \in Processes, NEW c \in Commands, NEW n \in Names \cup {NoName},
            Begin(p, c, n)
     PROVE  TypeOK'
  BY <1>1 DEF Begin, Goto
<1>2. ASSUME NEW p \in Processes, LookPresent(p) PROVE TypeOK'
  <2>1. LocalsOK'
    BY <1>2, LocalsTyped, ExitLocals, GotoLocals DEF LookPresent
  <2> QED
    BY <1>2, <2>1 DEF LocalsOK, LookPresent
<1>3. ASSUME NEW p \in Processes, LookAbsent(p) PROVE TypeOK'
  BY <1>3 DEF LookAbsent, Generate, Goto
<1>4. ASSUME NEW p \in Processes, Load(p) PROVE TypeOK'
  <2>1. LocalsOK' /\ raced' \in BOOLEAN
    <3>1. CASE ident = Empty /\ Exit(p) /\ UNCHANGED raced
      BY <3>1, LocalsTyped, ExitLocals
    <3>2. CASE ident = Keyless /\ Generate(p)
      BY <3>2, LocalsTyped, GenerateLocals
    <3>3. CASE /\ ident \in Identities
               /\ id' = [id EXCEPT ![p] = ident]
               /\ Goto(p, "run")
               /\ UNCHANGED <<cmd, name, cfg, raced>>
      BY <3>3, LocalsTyped DEF LocalsOK, Goto
    <3> QED
      BY <1>4, <3>1, <3>2, <3>3 DEF Load
  <2> QED
    BY <1>4, <2>1 DEF LocalsOK, Load
<1>5. ASSUME NEW p \in Processes, OpenIdent(p) PROVE TypeOK'
  BY <1>5 DEF OpenIdent, Goto
<1>6. ASSUME NEW p \in Processes, WriteIdent(p) PROVE TypeOK'
  <2>1. LocalsOK'
    BY <1>6, LocalsTyped, ExitLocals, GotoLocals DEF WriteIdent
  <2> QED
    BY <1>6, <2>1 DEF LocalsOK, WriteIdent
<1>7. ASSUME NEW p \in Processes, Show(p) PROVE TypeOK'
  BY <1>7 DEF Show, Goto, Exit, NoConfig
<1>8. ASSUME NEW p \in Processes, Refused(p) PROVE TypeOK'
  <2>1. LocalsOK' /\ late' \in SUBSET Profiles /\ used' \in SUBSET Identities
    BY <1>8, LocalsTyped, ExitLocals, MaySendTypes DEF Refused
  <2> QED
    BY <1>8, <2>1 DEF LocalsOK, Refused
<1>9. ASSUME NEW p \in Processes, SendOnce(p) PROVE TypeOK'
  BY <1>9 DEF SendOnce, Seen, Goto, Exit, NoConfig
<1>10. ASSUME NEW p \in Processes, Register(p) PROVE TypeOK'
  <2>1. LocalsOK'
    <3>1. CASE /\ cfg' = [cfg EXCEPT ![p] = [server |-> TRUE, nickname |-> NoName]]
               /\ Goto(p, "openConfig")
               /\ UNCHANGED <<cmd, name, id>>
      BY <3>1 DEF LocalsOK, Goto
    <3>2. CASE Exit(p)
      BY <3>2, LocalsTyped, ExitLocals
    <3> QED
      BY <1>10, <3>1, <3>2 DEF Register
  <2> QED
    BY <1>10, <2>1 DEF LocalsOK, Register, Seen
<1>11. ASSUME NEW p \in Processes, PublishProfile(p) PROVE TypeOK'
  <2>1. LocalsOK'
    BY <1>11, LocalsTyped, ExitLocals, GotoLocals DEF PublishProfile
  <2> QED
    BY <1>11, <2>1 DEF LocalsOK, PublishProfile, Seen, Publish
<1>12. ASSUME NEW p \in Processes, ReadConfig(p) PROVE TypeOK'
  <2>1. HasServer \in BOOLEAN
    BY DEF HasServer
  <2>2. [server |-> HasServer, nickname |-> name[p]] \in Configs
    BY <2>1
  <2> QED
    BY <1>12, <2>2 DEF ReadConfig, Goto
<1>13. ASSUME NEW p \in Processes, OpenConfig(p) PROVE TypeOK'
  BY <1>13 DEF OpenConfig, Goto
<1>14. ASSUME NEW p \in Processes, WriteConfig(p) PROVE TypeOK'
  BY <1>14 DEF WriteConfig, Goto, Exit, NoConfig
<1>15. ASSUME NEW p \in Processes, Crash(p) PROVE TypeOK'
  <2>1. LocalsOK' /\ late' \in SUBSET Profiles /\ used' \in SUBSET Identities
    BY <1>15, LocalsTyped, ExitLocals, MaySendTypes DEF Crash
  <2> QED
    BY <1>15, <2>1 DEF LocalsOK, Crash
<1>16. ASSUME NEW n \in Names, StrangerPublishes(n) PROVE TypeOK'
  BY <1>16 DEF StrangerPublishes, Publish
<1>17. CASE ServerRestart
  BY <1>17 DEF ServerRestart, DirectoryRestart
<1>18. ASSUME NEW p \in Processes, ClientConnects(p) PROVE TypeOK'
  BY <1>18 DEF ClientConnects, Seen
<1>19. ASSUME NEW r \in late, PublishArrives(r) PROVE TypeOK'
  BY <1>19 DEF PublishArrives, Publish, Profiles
<1>20. CASE UNCHANGED vars
  BY <1>20 DEF vars
<1> QED
  BY <1>1, <1>2, <1>3, <1>4, <1>5, <1>6, <1>7, <1>8, <1>9, <1>10,
     <1>11, <1>12, <1>13, <1>14, <1>15, <1>16, <1>17, <1>18, <1>19, <1>20 DEF Next

LEMMA OneIdentityNext == IInv /\ [Next]_vars => OneIdentity'
<1> SUFFICES ASSUME IInv, [Next]_vars PROVE OneIdentity'
  OBVIOUS
<1> USE DeviceAssumption, DirectoryAssumption DEF IInv, TypeOK, OwnIdentity, OneIdentity,
           Others, Past, files,
          locals, outside, flags, Commands, Configs, Making, Writing
<1>1. ASSUME NEW p \in Processes, NEW c \in Commands, NEW n \in Names \cup {NoName},
            Begin(p, c, n)
     PROVE  OneIdentity'
  BY <1>1 DEF Begin, Goto
<1>2. ASSUME NEW p \in Processes, LookPresent(p) PROVE OneIdentity'
  BY <1>2 DEF LookPresent, Goto, Exit, NoConfig
<1>3. ASSUME NEW p \in Processes, LookAbsent(p) PROVE OneIdentity'
  BY <1>3 DEF LookAbsent, Generate, Goto
<1>4. ASSUME NEW p \in Processes, Load(p) PROVE OneIdentity'
  BY <1>4 DEF Load, Generate, Goto, Exit, NoConfig
<1>5. ASSUME NEW p \in Processes, OpenIdent(p) PROVE OneIdentity'
  BY <1>5 DEF OpenIdent, Goto
<1>6. ASSUME NEW p \in Processes, WriteIdent(p) PROVE OneIdentity'
  BY <1>6 DEF WriteIdent, Goto, Exit, NoConfig
<1>7. ASSUME NEW p \in Processes, Show(p) PROVE OneIdentity'
  BY <1>7 DEF Show, Goto, Exit, NoConfig
<1>8. ASSUME NEW p \in Processes, Refused(p) PROVE OneIdentity'
  BY <1>8 DEF Refused, MaySend, Seen, Goto, Exit, NoConfig
<1>9. ASSUME NEW p \in Processes, SendOnce(p) PROVE OneIdentity'
  BY <1>9 DEF SendOnce, Seen, Goto, Exit, NoConfig
<1>10. ASSUME NEW p \in Processes, Register(p) PROVE OneIdentity'
  BY <1>10 DEF Register, Seen, Goto, Exit, NoConfig
<1>11. ASSUME NEW p \in Processes, PublishProfile(p) PROVE OneIdentity'
  BY <1>11 DEF PublishProfile, Seen, Publish, Goto, Exit, NoConfig
<1>12. ASSUME NEW p \in Processes, ReadConfig(p) PROVE OneIdentity'
  BY <1>12 DEF ReadConfig, Goto
<1>13. ASSUME NEW p \in Processes, OpenConfig(p) PROVE OneIdentity'
  BY <1>13 DEF OpenConfig, Goto
<1>14. ASSUME NEW p \in Processes, WriteConfig(p) PROVE OneIdentity'
  BY <1>14 DEF WriteConfig, Goto, Exit, NoConfig
<1>15. ASSUME NEW p \in Processes, Crash(p) PROVE OneIdentity'
  BY <1>15 DEF Crash, MaySend, Seen, Goto, Exit, NoConfig
<1>16. ASSUME NEW n \in Names, StrangerPublishes(n) PROVE OneIdentity'
  BY <1>16 DEF StrangerPublishes, Publish
<1>17. CASE ServerRestart
  BY <1>17 DEF ServerRestart, DirectoryRestart
<1>18. ASSUME NEW p \in Processes, ClientConnects(p) PROVE OneIdentity'
  BY <1>18 DEF ClientConnects, Seen
<1>19. ASSUME NEW r \in late, PublishArrives(r) PROVE OneIdentity'
  BY <1>19 DEF PublishArrives, Publish, Profiles
<1>20. CASE UNCHANGED vars
  BY <1>20 DEF vars
<1> QED
  BY <1>1, <1>2, <1>3, <1>4, <1>5, <1>6, <1>7, <1>8, <1>9, <1>10,
     <1>11, <1>12, <1>13, <1>14, <1>15, <1>16, <1>17, <1>18, <1>19, <1>20 DEF Next

LEMMA OwnIdentityNext == IInv /\ [Next]_vars => OwnIdentity'
<1> SUFFICES ASSUME IInv, [Next]_vars PROVE OwnIdentity'
  OBVIOUS
<1> USE DeviceAssumption, DirectoryAssumption DEF IInv, TypeOK, OwnIdentity, OneIdentity,
           Others, Past, files,
          locals, outside, flags, Commands, Configs, Making, Writing
<1>1. ASSUME NEW p \in Processes, NEW c \in Commands, NEW n \in Names \cup {NoName},
            Begin(p, c, n)
     PROVE  OwnIdentity'
  BY <1>1 DEF Begin, Goto
<1>2. ASSUME NEW p \in Processes, LookPresent(p) PROVE OwnIdentity'
  BY <1>2 DEF LookPresent, Goto, Exit, NoConfig
<1>3. ASSUME NEW p \in Processes, LookAbsent(p) PROVE OwnIdentity'
  BY <1>3, GenerateOwn DEF LookAbsent
<1>4. ASSUME NEW p \in Processes, Load(p) PROVE OwnIdentity'
  <2>1. CASE ident = Keyless /\ Generate(p)
    BY <1>4, <2>1, GenerateOwn DEF Load
  <2>2. CASE ident = Empty /\ Exit(p) /\ UNCHANGED raced
    BY <1>4, <2>2 DEF Load, Exit, Goto, NoConfig
  <2>3. CASE /\ ident \in Identities
             /\ id' = [id EXCEPT ![p] = ident]
             /\ Goto(p, "run")
             /\ UNCHANGED <<cmd, name, cfg, raced>>
    BY <1>4, <2>3 DEF Load, Goto
  <2> QED
    BY <1>4, <2>1, <2>2, <2>3 DEF Load
<1>5. ASSUME NEW p \in Processes, OpenIdent(p) PROVE OwnIdentity'
  BY <1>5 DEF OpenIdent, Goto
<1>6. ASSUME NEW p \in Processes, WriteIdent(p) PROVE OwnIdentity'
  BY <1>6 DEF WriteIdent, Goto, Exit, NoConfig
<1>7. ASSUME NEW p \in Processes, Show(p) PROVE OwnIdentity'
  BY <1>7 DEF Show, Goto, Exit, NoConfig
<1>8. ASSUME NEW p \in Processes, Refused(p) PROVE OwnIdentity'
  BY <1>8 DEF Refused, MaySend, Seen, Goto, Exit, NoConfig
<1>9. ASSUME NEW p \in Processes, SendOnce(p) PROVE OwnIdentity'
  BY <1>9 DEF SendOnce, Seen, Goto, Exit, NoConfig
<1>10. ASSUME NEW p \in Processes, Register(p) PROVE OwnIdentity'
  BY <1>10 DEF Register, Seen, Goto, Exit, NoConfig
<1>11. ASSUME NEW p \in Processes, PublishProfile(p) PROVE OwnIdentity'
  BY <1>11 DEF PublishProfile, Seen, Publish, Goto, Exit, NoConfig
<1>12. ASSUME NEW p \in Processes, ReadConfig(p) PROVE OwnIdentity'
  BY <1>12 DEF ReadConfig, Goto
<1>13. ASSUME NEW p \in Processes, OpenConfig(p) PROVE OwnIdentity'
  BY <1>13 DEF OpenConfig, Goto
<1>14. ASSUME NEW p \in Processes, WriteConfig(p) PROVE OwnIdentity'
  BY <1>14 DEF WriteConfig, Goto, Exit, NoConfig
<1>15. ASSUME NEW p \in Processes, Crash(p) PROVE OwnIdentity'
  BY <1>15 DEF Crash, MaySend, Seen, Goto, Exit, NoConfig
<1>16. ASSUME NEW n \in Names, StrangerPublishes(n) PROVE OwnIdentity'
  BY <1>16 DEF StrangerPublishes, Publish
<1>17. CASE ServerRestart
  BY <1>17 DEF ServerRestart, DirectoryRestart
<1>18. ASSUME NEW p \in Processes, ClientConnects(p) PROVE OwnIdentity'
  BY <1>18 DEF ClientConnects, Seen
<1>19. ASSUME NEW r \in late, PublishArrives(r) PROVE OwnIdentity'
  BY <1>19 DEF PublishArrives, Publish, Profiles
<1>20. CASE UNCHANGED vars
  BY <1>20 DEF vars
<1> QED
  BY <1>1, <1>2, <1>3, <1>4, <1>5, <1>6, <1>7, <1>8, <1>9, <1>10,
     <1>11, <1>12, <1>13, <1>14, <1>15, <1>16, <1>17, <1>18, <1>19, <1>20 DEF Next

LEMMA WritesServerNext == IInv /\ [Next]_vars => WritesServer'
<1> SUFFICES ASSUME IInv, [Next]_vars PROVE WritesServer'
  OBVIOUS
<1> USE DeviceAssumption, DirectoryAssumption DEF IInv, TypeOK, OwnIdentity, WritesServer,
           ServerKept, HasServer, Others, Past, files,
          locals, outside, flags, Commands, Configs, Making, Writing
<1>1. ASSUME NEW p \in Processes, NEW c \in Commands, NEW n \in Names \cup {NoName},
            Begin(p, c, n)
     PROVE  WritesServer'
  BY <1>1 DEF Begin, Goto
<1>2. ASSUME NEW p \in Processes, LookPresent(p) PROVE WritesServer'
  BY <1>2, OtherWrites DEF LookPresent, Goto, Exit
<1>3. ASSUME NEW p \in Processes, LookAbsent(p) PROVE WritesServer'
  BY <1>3, OtherWrites DEF LookAbsent, Generate, Goto
<1>4. ASSUME NEW p \in Processes, Load(p) PROVE WritesServer'
  <2>1. CASE ident = Keyless /\ Generate(p)
    BY <1>4, <2>1, OtherWrites DEF Load, Generate, Goto
  <2>2. CASE ident = Empty /\ Exit(p)
    BY <1>4, <2>2, OtherWrites DEF Load, Exit, Goto
  <2>3. CASE Goto(p, "run") /\ UNCHANGED <<cmd, name, cfg, raced>>
    BY <1>4, <2>3, OtherWrites DEF Load, Goto
  <2> QED
    BY <1>4, <2>1, <2>2, <2>3 DEF Load
<1>5. ASSUME NEW p \in Processes, OpenIdent(p) PROVE WritesServer'
  BY <1>5, OtherWrites DEF OpenIdent, Goto
<1>6. ASSUME NEW p \in Processes, WriteIdent(p) PROVE WritesServer'
  <2>1. pc'[p] \notin Writing /\ UNCHANGED <<config, registered, hurt>>
    BY <1>6 DEF WriteIdent, Exit, Goto
  <2>2. \A q \in Processes \ {p} : pc'[q] = pc[q] /\ cmd'[q] = cmd[q] /\ cfg'[q] = cfg[q]
    BY <1>6 DEF WriteIdent, Exit, Goto
  <2> QED
    BY <1>6, <2>1, <2>2, OtherWrites
<1>7. ASSUME NEW p \in Processes, Show(p) PROVE WritesServer'
  BY <1>7, OtherWrites DEF Show, Goto, Exit
<1>8. ASSUME NEW p \in Processes, Refused(p) PROVE WritesServer'
  BY <1>8, OtherWrites DEF Refused, MaySend, Seen, Goto, Exit
<1>9. ASSUME NEW p \in Processes, SendOnce(p) PROVE WritesServer'
  BY <1>9, OtherWrites DEF SendOnce, Goto, Exit
<1>10. ASSUME NEW p \in Processes, Register(p) PROVE WritesServer'
  <2>1. CASE Exit(p)
    BY <1>10, <2>1, OtherWrites DEF Register, Goto, Exit
  <2>2. CASE /\ cfg' = [cfg EXCEPT ![p] = [server |-> TRUE, nickname |-> NoName]]
             /\ Goto(p, "openConfig")
             /\ UNCHANGED <<cmd, name, id>>
    BY <1>10, <2>2 DEF Register, Goto
  <2> QED
    BY <1>10, <2>1, <2>2 DEF Register
<1>11. ASSUME NEW p \in Processes, PublishProfile(p) PROVE WritesServer'
  <2>1. CASE Exit(p)
    BY <1>11, <2>1, OtherWrites DEF PublishProfile, Goto, Exit
  <2>2. CASE Goto(p, "readConfig") /\ UNCHANGED <<cmd, name, id, cfg>>
    BY <1>11, <2>2 DEF PublishProfile, Goto
  <2> QED
    BY <1>11, <2>1, <2>2 DEF PublishProfile
<1>12. ASSUME NEW p \in Processes, ReadConfig(p) PROVE WritesServer'
  <2>1. \A q \in Processes \ {p} : pc'[q] = pc[q] /\ cmd'[q] = cmd[q] /\ cfg'[q] = cfg[q]
    BY <1>12 DEF ReadConfig, Goto
  <2>2. pc'[p] = "openConfig" /\ cmd'[p] = "publish" /\ UNCHANGED <<config, registered>>
    BY <1>12 DEF ReadConfig, Goto
  <2>3. ~hurt' => ~hurt /\ \A q \in Processes \ {p} : pc[q] \notin Writing
    BY <1>12 DEF ReadConfig
  <2>4. registered' /\ ~hurt' => config \in Configs /\ config.server
    BY <1>12, <2>2, <2>3 DEF ReadConfig
  <2>5. config \in Configs /\ config.server => cfg'[p].server
    <3>1. cfg'[p] = [server |-> config \in Configs /\ config.server, nickname |-> name[p]]
      BY <1>12 DEF ReadConfig
    <3>2. CASE config \in Configs /\ config.server
      <4>1. (config \in Configs /\ config.server) = TRUE
        BY <3>2
      <4>2. cfg'[p] = [server |-> TRUE, nickname |-> name[p]]
        BY ONLY <3>1, <4>1
      <4> QED
        BY <4>2
    <3> QED
      BY <3>2
  <2> QED
    BY <2>1, <2>2, <2>3, <2>4, <2>5
<1>13. ASSUME NEW p \in Processes, OpenConfig(p) PROVE WritesServer'
  <2>1. \A q \in Processes : cmd'[q] = cmd[q] /\ cfg'[q] = cfg[q]
    BY <1>13 DEF OpenConfig
  <2>2. pc'[p] = "writeConfig" /\ \A q \in Processes \ {p} : pc'[q] = pc[q]
    BY <1>13 DEF OpenConfig, Goto
  <2>3. ~hurt' => ~hurt /\ \A q \in Processes \ {p} : pc[q] \notin Writing
    BY <1>13 DEF OpenConfig
  <2>4. pc[p] = "openConfig" /\ config' = Empty /\ registered' = registered
    BY <1>13 DEF OpenConfig
  <2> QED
    BY <2>1, <2>2, <2>3, <2>4
<1>14. ASSUME NEW p \in Processes, WriteConfig(p) PROVE WritesServer'
  BY <1>14 DEF WriteConfig, Goto, Exit, NoConfig
<1>15. ASSUME NEW p \in Processes, Crash(p) PROVE WritesServer'
  BY <1>15 DEF Crash, MaySend, Seen, Goto, Exit, NoConfig
<1>16. ASSUME NEW n \in Names, StrangerPublishes(n) PROVE WritesServer'
  BY <1>16 DEF StrangerPublishes, Publish
<1>17. CASE ServerRestart
  BY <1>17 DEF ServerRestart, DirectoryRestart
<1>18. ASSUME NEW p \in Processes, ClientConnects(p) PROVE WritesServer'
  BY <1>18 DEF ClientConnects, Seen
<1>19. ASSUME NEW r \in late, PublishArrives(r) PROVE WritesServer'
  BY <1>19 DEF PublishArrives, Publish, Profiles
<1>20. CASE UNCHANGED vars
  BY <1>20 DEF vars
<1> QED
  BY <1>1, <1>2, <1>3, <1>4, <1>5, <1>6, <1>7, <1>8, <1>9, <1>10,
     <1>11, <1>12, <1>13, <1>14, <1>15, <1>16, <1>17, <1>18, <1>19, <1>20 DEF Next

LEMMA ServerKeptNext == IInv /\ [Next]_vars => ServerKept'
<1> SUFFICES ASSUME IInv, [Next]_vars PROVE ServerKept'
  OBVIOUS
<1> USE DeviceAssumption, DirectoryAssumption DEF IInv, TypeOK, OwnIdentity, WritesServer,
           ServerKept, HasServer, Others, Past, files,
          locals, outside, flags, Commands, Configs, Making, Writing
<1>1. ASSUME NEW p \in Processes, NEW c \in Commands, NEW n \in Names \cup {NoName},
            Begin(p, c, n)
     PROVE  ServerKept'
  BY <1>1 DEF Begin, Goto
<1>2. ASSUME NEW p \in Processes, LookPresent(p) PROVE ServerKept'
  BY <1>2 DEF LookPresent, Goto, Exit, NoConfig
<1>3. ASSUME NEW p \in Processes, LookAbsent(p) PROVE ServerKept'
  BY <1>3 DEF LookAbsent, Generate, Goto
<1>4. ASSUME NEW p \in Processes, Load(p) PROVE ServerKept'
  BY <1>4 DEF Load, Generate, Goto, Exit, NoConfig
<1>5. ASSUME NEW p \in Processes, OpenIdent(p) PROVE ServerKept'
  BY <1>5 DEF OpenIdent, Goto
<1>6. ASSUME NEW p \in Processes, WriteIdent(p) PROVE ServerKept'
  BY <1>6 DEF WriteIdent, Goto, Exit, NoConfig
<1>7. ASSUME NEW p \in Processes, Show(p) PROVE ServerKept'
  BY <1>7 DEF Show, Goto, Exit, NoConfig
<1>8. ASSUME NEW p \in Processes, Refused(p) PROVE ServerKept'
  BY <1>8 DEF Refused, MaySend, Seen, Goto, Exit, NoConfig
<1>9. ASSUME NEW p \in Processes, SendOnce(p) PROVE ServerKept'
  BY <1>9 DEF SendOnce, Seen, Goto, Exit, NoConfig
<1>10. ASSUME NEW p \in Processes, Register(p) PROVE ServerKept'
  BY <1>10 DEF Register, Seen, Goto, Exit, NoConfig
<1>11. ASSUME NEW p \in Processes, PublishProfile(p) PROVE ServerKept'
  BY <1>11 DEF PublishProfile, Seen, Publish, Goto, Exit, NoConfig
<1>12. ASSUME NEW p \in Processes, ReadConfig(p) PROVE ServerKept'
  BY <1>12 DEF ReadConfig, Goto
<1>13. ASSUME NEW p \in Processes, OpenConfig(p) PROVE ServerKept'
  BY <1>13 DEF OpenConfig, Goto
<1>14. ASSUME NEW p \in Processes, WriteConfig(p) PROVE ServerKept'
  BY <1>14 DEF WriteConfig, Goto, Exit, NoConfig
<1>15. ASSUME NEW p \in Processes, Crash(p) PROVE ServerKept'
  BY <1>15 DEF Crash, MaySend, Seen, Goto, Exit, NoConfig
<1>16. ASSUME NEW n \in Names, StrangerPublishes(n) PROVE ServerKept'
  BY <1>16 DEF StrangerPublishes, Publish
<1>17. CASE ServerRestart
  BY <1>17 DEF ServerRestart, DirectoryRestart
<1>18. ASSUME NEW p \in Processes, ClientConnects(p) PROVE ServerKept'
  BY <1>18 DEF ClientConnects, Seen
<1>19. ASSUME NEW r \in late, PublishArrives(r) PROVE ServerKept'
  BY <1>19 DEF PublishArrives, Publish, Profiles
<1>20. CASE UNCHANGED vars
  BY <1>20 DEF vars
<1> QED
  BY <1>1, <1>2, <1>3, <1>4, <1>5, <1>6, <1>7, <1>8, <1>9, <1>10,
     <1>11, <1>12, <1>13, <1>14, <1>15, <1>16, <1>17, <1>18, <1>19, <1>20 DEF Next

LEMMA NicknameNext == IInv /\ [Next]_vars => NicknameInv'
<1> SUFFICES ASSUME IInv, [Next]_vars PROVE NicknameInv'
  OBVIOUS
<1> USE DeviceAssumption, DirectoryAssumption DEF IInv, TypeOK, DirectoryTypeOK, OwnIdentity,
           OneIdentity, NicknameInv, FiledByName, Ours, Others, Past, files,
          locals, outside, flags, Commands, Configs, Making, Writing
<1>1. ASSUME NEW p \in Processes, NEW c \in Commands, NEW n \in Names \cup {NoName},
            Begin(p, c, n)
     PROVE  NicknameInv'
  <2>1. FiledByName'
    BY <1>1 DEF Begin
  <2>2. \A q \in Processes : pc'[q] \in Writing => q # p /\ pc[q] \in Writing
    BY <1>1 DEF Begin, Goto
  <2>3. \A q \in Processes \ {p} : /\ pc'[q] = pc[q] /\ cmd'[q] = cmd[q]
                                   /\ name'[q] = name[q] /\ cfg'[q] = cfg[q]
    BY <1>1 DEF Begin, Goto
  <2>4. /\ overlapped => overlapped'
        /\ UNCHANGED <<entries, config, ident, taken, unsaved, used, raced>>
    BY <1>1 DEF Begin
  <2>5. cmd'[p] = c /\ (~overlapped' /\ c = "publish" => \A q \in Processes : cmd[q] # "publish")
    BY <1>1 DEF Begin
  <2>6. ~overlapped' => \A q, r \in Processes : cmd'[q] = "publish" /\ cmd'[r] = "publish" => q = r
    BY <2>3, <2>4, <2>5
  <2>7. \A q \in Processes \ {p} : pc'[q] \in Writing =>
          /\ used' # {}
          /\ pc'[q] \in {"openConfig", "writeConfig"} => cfg'[q].nickname = name'[q]
          /\ cmd'[q] = "publish" /\ ~raced' /\ ~overlapped' =>
               /\ Norm[name'[q]] \in unsaved'
               /\ Norm[name'[q]] \notin taken' => Ours(name[q])
    BY <2>3, <2>4
  <2> QED
    BY <2>1, <2>2, <2>3, <2>4, <2>6, <2>7
<1>2. ASSUME NEW p \in Processes, LookPresent(p) PROVE NicknameInv'
  BY <1>2, OtherNickname DEF LookPresent, Goto, Exit
<1>3. ASSUME NEW p \in Processes, LookAbsent(p) PROVE NicknameInv'
  BY <1>3, OtherNickname DEF LookAbsent, Generate, Goto
<1>4. ASSUME NEW p \in Processes, Load(p) PROVE NicknameInv'
  <2>1. CASE ident = Keyless /\ Generate(p)
    BY <1>4, <2>1, OtherNickname DEF Load, Generate, Goto
  <2>2. CASE ident = Empty /\ Exit(p) /\ UNCHANGED raced
    BY <1>4, <2>2, OtherNickname DEF Load, Exit, Goto
  <2>3. CASE Goto(p, "run") /\ UNCHANGED <<cmd, name, cfg, raced>>
    BY <1>4, <2>3, OtherNickname DEF Load, Goto
  <2> QED
    BY <1>4, <2>1, <2>2, <2>3 DEF Load
<1>5. ASSUME NEW p \in Processes, OpenIdent(p) PROVE NicknameInv'
  BY <1>5, IdentNickname DEF OpenIdent, Goto
<1>6. ASSUME NEW p \in Processes, WriteIdent(p) PROVE NicknameInv'
  <2>1. /\ \A q \in Processes \ {p} : /\ pc'[q] = pc[q] /\ cmd'[q] = cmd[q]
                                      /\ name'[q] = name[q] /\ cfg'[q] = cfg[q]
        /\ pc'[p] \notin Writing
        /\ cmd'[p] = "publish" => cmd[p] = "publish"
    BY <1>6 DEF WriteIdent, Exit, Goto
  <2>2. pc[p] \in Making
    BY <1>6 DEF WriteIdent
  <2>3. UNCHANGED <<entries, config, taken, unsaved, overlapped, used, raced>>
    BY <1>6 DEF WriteIdent
  <2> HIDE DEF IInv, NicknameInv, Making, Writing
  <2> QED
    BY <1>6, <2>1, <2>2, <2>3, IdentNickname
<1>7. ASSUME NEW p \in Processes, Show(p) PROVE NicknameInv'
  BY <1>7, OtherNickname DEF Show, Goto, Exit
<1>8. ASSUME NEW p \in Processes, Refused(p) PROVE NicknameInv'
  BY <1>8, OtherNickname DEF Refused, MaySend, Seen, Goto, Exit
<1>9. ASSUME NEW p \in Processes, SendOnce(p) PROVE NicknameInv'
  BY <1>9, OtherNickname DEF SendOnce, Seen, Goto, Exit
<1>10. ASSUME NEW p \in Processes, Register(p) PROVE NicknameInv'
  <2>1. CASE Exit(p)
    BY <1>10, <2>1, OtherNickname DEF Register, Seen, Goto, Exit
  <2>2. CASE /\ cfg' = [cfg EXCEPT ![p] = [server |-> TRUE, nickname |-> NoName]]
             /\ Goto(p, "openConfig")
             /\ UNCHANGED <<cmd, name, id>>
    <3>1. pc'[p] = "openConfig" /\ cfg'[p].nickname = NoName /\ cmd[p] = "register" /\ used' # {}
      BY <1>10, <2>2 DEF Register, Seen, Goto
    <3>2. name[p] = NoName
      BY <1>10, <3>1
    <3>3. \A q \in Processes \ {p} : pc'[q] = pc[q] /\ cfg'[q] = cfg[q]
      BY <2>2 DEF Goto
    <3>4. UNCHANGED <<entries, config, ident, taken, unsaved, overlapped, raced, cmd, name>>
      BY <1>10, <2>2 DEF Register
    <3> QED
      BY <3>1, <3>2, <3>3, <3>4
  <2> QED
    BY <1>10, <2>1, <2>2 DEF Register
<1>11. ASSUME NEW p \in Processes, PublishProfile(p) PROVE NicknameInv'
  BY <1>11 DEF PublishProfile, Seen, Publish, Goto, Exit, NoConfig
<1>12. ASSUME NEW p \in Processes, ReadConfig(p) PROVE NicknameInv'
  BY <1>12 DEF ReadConfig, Goto
<1>13. ASSUME NEW p \in Processes, OpenConfig(p) PROVE NicknameInv'
  BY <1>13 DEF OpenConfig, Goto
<1>14. ASSUME NEW p \in Processes, WriteConfig(p) PROVE NicknameInv'
  <2>1. \A q \in Processes \ {p} : /\ pc'[q] = pc[q] /\ cmd'[q] = cmd[q]
                                     /\ name'[q] = name[q] /\ cfg'[q] = cfg[q]
    BY <1>14 DEF WriteConfig, Exit, Goto
  <2>2. pc'[p] = "idle" /\ cmd'[p] = "show"
    BY <1>14 DEF WriteConfig, Exit, Goto
  <2>3. UNCHANGED <<entries, ident, used, raced, overlapped, taken>>
    BY <1>14 DEF WriteConfig
  <2>4. unsaved' \subseteq unsaved
    BY <1>14 DEF WriteConfig
  <2>5. config' \in Configs => config' = cfg[p]
    BY <1>14 DEF WriteConfig
  <2>6. used # {} /\ cfg[p].nickname = name[p]
    BY <1>14 DEF WriteConfig
  <2>7. config' \in Configs /\ config'.nickname # NoName => cmd[p] = "publish"
    BY <2>5, <2>6
  <2>8. cmd[p] = "publish" /\ ~raced /\ ~overlapped /\ Norm[name[p]] \notin taken => Ours(name[p])
    BY <1>14 DEF WriteConfig
  <2>9. \A q \in Processes : pc'[q] \in Writing /\ cmd'[q] = "publish" /\ ~overlapped =>
          cmd[p] # "publish" /\ unsaved' = unsaved
    BY <1>14, <2>1, <2>2 DEF WriteConfig
  <2>10. FiledByName'
    BY <2>3
  <2>11. \A q \in Processes :
           /\ pc'[q] \in Writing => used' # {}
           /\ pc'[q] \in {"openConfig", "writeConfig"} => cfg'[q].nickname = name'[q]
           /\ pc'[q] \in Writing /\ cmd'[q] = "publish" /\ ~raced' /\ ~overlapped' =>
                /\ Norm[name'[q]] \in unsaved'
                /\ Norm[name'[q]] \notin taken' => Ours(name[q])'
    BY <2>1, <2>2, <2>3, <2>9
  <2>12. ~overlapped' =>
           \A q, r \in Processes : cmd'[q] = "publish" /\ cmd'[r] = "publish" => q = r
    BY <2>1, <2>2, <2>3
  <2>13. config' \in Configs /\ config'.nickname # NoName => used' # {}
    BY <2>3, <2>6
  <2>14. config' \in Configs /\ config'.nickname # NoName /\ ~raced' /\ ~overlapped'
           /\ Norm[config'.nickname] \notin taken' \cup unsaved' => Ours(config.nickname)'
    BY <2>3, <2>5, <2>6, <2>7, <2>8
  <2> QED
    BY <2>10, <2>11, <2>12, <2>13, <2>14
<1>15. ASSUME NEW p \in Processes, Crash(p) PROVE NicknameInv'
  BY <1>15, OtherNickname DEF Crash, MaySend, Seen, Goto, Exit
<1>16. ASSUME NEW n \in Names, StrangerPublishes(n) PROVE NicknameInv'
  BY <1>16 DEF StrangerPublishes, Publish
<1>17. CASE ServerRestart
  BY <1>17 DEF ServerRestart, DirectoryRestart
<1>18. ASSUME NEW p \in Processes, ClientConnects(p) PROVE NicknameInv'
  BY <1>18, OtherNickname DEF ClientConnects, Seen
<1>19. ASSUME NEW r \in late, PublishArrives(r) PROVE NicknameInv'
  <2>1. r.name \in Names /\ Norm[r.name] \in Words
    BY DEF Profiles
  <2>2. /\ entries' = [entries EXCEPT ![Norm[r.name]] = [name |-> r.name, device |-> r.device]]
        /\ taken' = taken \ {Norm[r.name]}
        /\ unsaved' = unsaved \cup {Norm[r.name]}
        /\ UNCHANGED <<config, ident, pc, cmd, name, cfg, used, raced>>
    BY <1>19 DEF PublishArrives, Publish
  <2>3. ~overlapped' => ~overlapped /\ \A q \in Processes : cmd[q] # "publish"
    BY <1>19 DEF PublishArrives
  <2>4. FiledByName'
    BY <2>1, <2>2
  <2>5. \A q \in Processes :
          /\ pc'[q] \in Writing => used' # {}
          /\ pc'[q] \in {"openConfig", "writeConfig"} => cfg'[q].nickname = name'[q]
    BY <2>2
  <2>6. config' \in Configs /\ config'.nickname # NoName => used' # {}
    BY <2>2
  <2>7. config' \in Configs /\ config'.nickname # NoName /\ ~raced' /\ ~overlapped'
          /\ Norm[config'.nickname] \notin taken' \cup unsaved' => Ours(config.nickname)'
    BY <2>1, <2>2, <2>3
  <2> QED
    BY <2>2, <2>3, <2>4, <2>5, <2>6, <2>7
<1>20. CASE UNCHANGED vars
  BY <1>20 DEF vars
<1> HIDE DEF IInv, TypeOK, NicknameInv, OwnIdentity, OneIdentity, FiledByName
<1> QED
  BY <1>1, <1>2, <1>3, <1>4, <1>5, <1>6, <1>7, <1>8, <1>9, <1>10,
     <1>11, <1>12, <1>13, <1>14, <1>15, <1>16, <1>17, <1>18, <1>19, <1>20 DEF Next

LEMMA InitInv == Init => IInv
<1> SUFFICES ASSUME Init PROVE IInv
  OBVIOUS
<1> USE DeviceAssumption, DirectoryAssumption DEF Init, DirectoryInit, NoConfig
<1>1. TypeOK
  <2>1. DirectoryTypeOK
    BY DEF DirectoryTypeOK
  <2>2. /\ cfg \in [Processes -> Configs] /\ cmd \in [Processes -> Commands]
        /\ pc \in [Processes -> {"idle", "look", "load", "run"} \cup Making \cup Writing]
    BY DEF Commands, Configs
  <2>3. ident \in Identities \cup {Absent, Empty, Keyless}
    OBVIOUS
  <2>4. commands \in 0..MaxCommands /\ crashes \in 0..MaxCrashes
    OBVIOUS
  <2>5. /\ name \in [Processes -> Names \cup {NoName}]
        /\ id \in [Processes -> Identities \cup {NoId}]
    OBVIOUS
  <2>6. config \in Configs \cup {Absent, Empty, Mixed}
    OBVIOUS
  <2>7. /\ used \in SUBSET Identities /\ taken \in SUBSET Words /\ unsaved \in SUBSET Words
        /\ raced \in BOOLEAN /\ overlapped \in BOOLEAN
        /\ hurt \in BOOLEAN /\ registered \in BOOLEAN
    OBVIOUS
  <2>8. late \in SUBSET Profiles
    OBVIOUS
  <2> QED
    BY ONLY <2>1, <2>2, <2>3, <2>4, <2>5, <2>6, <2>7, <2>8 DEF TypeOK
<1>2. OwnIdentity /\ OneIdentity
  BY DEF OwnIdentity, OneIdentity, Past, Making, Writing
<1>3. WritesServer /\ ServerKept
  BY DEF WritesServer, ServerKept, HasServer
<1>4. NicknameInv
  BY DEF NicknameInv, FiledByName, Writing, Configs
<1> QED
  BY <1>1, <1>2, <1>3, <1>4 DEF IInv

LEMMA NextInv == IInv /\ [Next]_vars => IInv'
  BY TypeNext, OneIdentityNext, OwnIdentityNext, WritesServerNext, ServerKeptNext, NicknameNext
     DEF IInv

\* The inductive invariant holds of any number of commands on one user's files,
\* whatever dies.
THEOREM Invariance == Spec => []IInv
  BY InitInv, NextInv, PTL DEF Spec

\* However commands meet and die, a server sees only the identity in the file unless
\* two commands made one at the same time (loadOrCreateIdentity, registerDevice).
THEOREM OneDevice == Spec => []OneIdentity
<1>1. IInv => OneIdentity
  BY DEF IInv
<1> QED
  BY <1>1, Invariance, PTL

\* What register saved in client.json is not lost to saveNickname, as long as no two
\* commands write the file together and none dies while it does.
THEOREM ServerAddressKept == Spec => []ServerKept
<1>1. IInv => ServerKept
  BY DEF IInv
<1> QED
  BY <1>1, Invariance, PTL

\* A whole identity file that nobody is about to write stays as it is for ever
\* (loadOrCreateIdentity, generateKeys, loadIdentityFromFile).
THEOREM KeyKept == Spec => IdentityKept
<1>1. IInv /\ [Next]_vars => (Settled => Settled' /\ ident' = ident)
  <2> SUFFICES ASSUME IInv, [Next]_vars, Settled PROVE Settled' /\ ident' = ident
    OBVIOUS
  <2> USE DeviceAssumption DEF IInv, TypeOK, Settled, Making, Writing, files, locals, outside, flags
  <2>1. ASSUME NEW p \in Processes, NEW c \in Commands, NEW n \in Names \cup {NoName},
               Begin(p, c, n)
        PROVE  Settled' /\ ident' = ident
    BY <2>1 DEF Begin, Goto
  <2>2. ASSUME NEW p \in Processes, LookPresent(p) PROVE Settled' /\ ident' = ident
    BY <2>2 DEF LookPresent, Exit, Goto
  <2>3. ASSUME NEW p \in Processes, LookAbsent(p) PROVE Settled' /\ ident' = ident
    BY <2>3 DEF LookAbsent
  <2>4. ASSUME NEW p \in Processes, Load(p) PROVE Settled' /\ ident' = ident
    BY <2>4 DEF Load, Goto
  <2>5. ASSUME NEW p \in Processes, OpenIdent(p) \/ WriteIdent(p)
        PROVE  Settled' /\ ident' = ident
    BY <2>5 DEF OpenIdent, WriteIdent
  <2>6. ASSUME NEW p \in Processes, Show(p) \/ Refused(p) \/ SendOnce(p)
        PROVE  Settled' /\ ident' = ident
    BY <2>6 DEF Show, Refused, SendOnce, Exit, Goto
  <2>7. ASSUME NEW p \in Processes, Register(p) PROVE Settled' /\ ident' = ident
    BY <2>7 DEF Register, Exit, Goto
  <2>8. ASSUME NEW p \in Processes, PublishProfile(p) PROVE Settled' /\ ident' = ident
    BY <2>8 DEF PublishProfile, Exit, Goto
  <2>9. ASSUME NEW p \in Processes, ReadConfig(p) \/ OpenConfig(p)
        PROVE  Settled' /\ ident' = ident
    BY <2>9 DEF ReadConfig, OpenConfig, Goto
  <2>10. ASSUME NEW p \in Processes, WriteConfig(p) PROVE Settled' /\ ident' = ident
    BY <2>10 DEF WriteConfig, Exit, Goto
  <2>11. ASSUME NEW p \in Processes, Crash(p) PROVE Settled' /\ ident' = ident
    BY <2>11 DEF Crash, MaySend, Exit, Goto
  <2>12. ASSUME NEW n \in Names, StrangerPublishes(n) PROVE Settled' /\ ident' = ident
    BY <2>12 DEF StrangerPublishes
  <2>13. CASE ServerRestart
    BY <2>13 DEF ServerRestart
  <2>16. CASE UNCHANGED vars
    BY <2>16 DEF vars
  <2>14. ASSUME NEW p \in Processes, ClientConnects(p) PROVE Settled' /\ ident' = ident
    BY <2>14 DEF ClientConnects
  <2>15. ASSUME NEW r \in late, PublishArrives(r) PROVE Settled' /\ ident' = ident
    BY <2>15 DEF PublishArrives
  <2> QED
    BY <2>1, <2>2, <2>3, <2>4, <2>5, <2>6, <2>7, <2>8, <2>9, <2>10, <2>11, <2>12, <2>13,
       <2>14, <2>15, <2>16 DEF Next
<1>2. IInv /\ [Next]_vars => [Settled => Settled' /\ ident' = ident]_vars
  BY <1>1
<1> QED
  BY <1>2, Invariance, PTL DEF Spec, IdentityKept

\* Where entries are filed by their names, a search answers as a lookup does: what
\* else the prefix brings does not decrypt.
LEMMA SearchIsLookup ==
  ASSUME DirectoryTypeOK, FiledByName, NEW q \in Names
  PROVE  SearchProfiles(q) = LookupProfile(q)
<1> USE DirectoryAssumption DEF DirectoryTypeOK, FiledByName
<1>1. Norm[q] \in Words
  OBVIOUS
<1>2. ASSUME NEW x \in Search(Prefix[Norm[q]]), Decrypts(q, x)
      PROVE  x \in {entries[Norm[q]]} \ {NoEntry}
  BY <1>2 DEF Search, Decrypts
<1>3. \A x \in {entries[Norm[q]]} \ {NoEntry} : x \in Search(Prefix[Norm[q]])
  BY <1>1 DEF Search
<1> QED
  BY <1>2, <1>3 DEF SearchProfiles, LookupProfile

\* searchDirectory and lookupProfile agree on every nickname (directory.go of encli).
THEOREM SearchFinds == Spec => []SearchAgrees
<1>1. IInv => SearchAgrees
  BY SearchIsLookup DEF IInv, TypeOK, NicknameInv, SearchAgrees
<1> QED
  BY <1>1, Invariance, PTL

\* The nickname saved in client.json leads to this device until somebody else takes
\* it or the server restarts ("Others can find you", directory.go:118).
THEOREM NicknameFound == Spec => []NicknameResolves
<1>1. IInv => NicknameResolves
  <2> SUFFICES ASSUME IInv, ~raced, ~overlapped, config \in Configs,
                      config.nickname \in Plain,
                      Norm[config.nickname] \notin taken \cup unsaved
               PROVE  /\ LookupProfile(config.nickname) = {ident}
                      /\ SearchProfiles(config.nickname) = {ident}
    BY DEF NicknameResolves
  <2> DEFINE n == config.nickname
             e == [name |-> n, device |-> ident]
  <2>1. n \in Names /\ n # NoName
    BY DeviceAssumption, DirectoryAssumption
  <2>2. used # {} /\ entries[Norm[n]] = e
    BY <2>1 DEF IInv, NicknameInv, Ours
  <2>3. e # NoEntry
    <3>1. ident \in Devices
      BY <2>2, DeviceAssumption DEF IInv, TypeOK, OneIdentity
    <3> QED
      BY <3>1, <2>1, DirectoryAssumption
  <2>4. Decrypts(n, e)
    BY <2>1, DirectoryAssumption DEF Decrypts
  <2>5. LookupProfile(n) = {ident}
    BY <2>2, <2>3, <2>4 DEF LookupProfile
  <2> QED
    BY <2>1, <2>5, SearchIsLookup DEF IInv, TypeOK, NicknameInv
<1> QED
  BY <1>1, Invariance, PTL

=============================================================================
