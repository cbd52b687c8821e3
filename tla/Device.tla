------------------------------- MODULE Device -------------------------------
(***************************************************************************)
(* The files of one user and the commands that work on them: the identity  *)
(* and client.json of cmd/encli/identity.go, with register, publish, send, *)
(* keys generate and the commands that only load the identity (keys show,  *)
(* the terminal client).  Every command is a process; nothing locks the    *)
(* files, and a process may die between any two steps.                     *)
(*                                                                         *)
(* os.WriteFile empties the file and then writes it in one call, so a file *)
(* is Absent, Empty, whole, or Mixed of two writers' texts.  Of            *)
(* client.json the model keeps whether it names a server, and the          *)
(* nickname; nothing reads the other fields.  The directory is that of the *)
(* one server all commands talk to.                                        *)
(*                                                                         *)
(* os.Stat may fail on a file that is there; the code takes that for its   *)
(* absence, but then WriteFile fails on the same path and the command ends *)
(* with no trace, which is a Crash.  A Stat that fails and a WriteFile that*)
(* succeeds right after it is left out.                                    *)
(***************************************************************************)
EXTENDS Directory

CONSTANTS Processes,
          Identities,   \* key pairs this machine may generate
          Stranger,     \* the device of somebody else
          MaxCommands,  \* bound: commands run
          MaxCrashes,   \* bound: commands that die
          Absent, Empty, Mixed,
          Keyless,      \* an identity file without a private key of 32 bytes
          NoId, NoName

ASSUME DeviceAssumption ==
  /\ Identities \subseteq Devices /\ Stranger \in Devices \ Identities
  /\ Identities \cap {Absent, Empty, Keyless, NoId} = {}
  /\ Cardinality({Absent, Empty, Keyless}) = 3
  /\ {Absent, Empty, Mixed} \cap [server : BOOLEAN, nickname : Names \cup {NoName}] = {}
  /\ NoName \notin Names
  /\ MaxCommands \in Nat /\ MaxCrashes \in Nat

Commands == {"generate", "register", "publish", "send", "show"}
Configs == [server : BOOLEAN, nickname : Names \cup {NoName}]
Profiles == [name : Names, device : Identities]

VARIABLES
  ident,      \* the identity file
  config,     \* client.json
  pc,
  cmd, name,  \* per process: the command and its argument
  id,         \* per process: the identity it has loaded or made
  cfg,        \* per process: what it is about to write to client.json
  late,       \* publishes on their way whose command is over
  commands, crashes,
  used,       \* history: identities sent to a server
  raced,      \* history: two processes made an identity at the same time
  overlapped, \* history: a publish began or arrived late while another was running
  hurt,       \* history: a writer of client.json died or met another
  registered, \* history: a register has written client.json
  taken,      \* history: words a stranger or a restart took since our last publish
  unsaved     \* history: words we published and did not save

files   == <<ident, config>>
locals  == <<pc, cmd, name, id, cfg>>
outside == <<late, commands, crashes>>
flags   == <<used, raced, overlapped, hurt, registered, taken, unsaved>>
vars    == <<entries, files, locals, outside, flags>>

Making == {"openIdent", "writeIdent"}
Writing == {"readConfig", "openConfig", "writeConfig"}

TypeOK ==
  /\ DirectoryTypeOK
  /\ ident \in Identities \cup {Absent, Empty, Keyless}
  /\ config \in Configs \cup {Absent, Empty, Mixed}
  /\ pc \in [Processes -> {"idle", "look", "load", "run"} \cup Making \cup Writing]
  /\ cmd \in [Processes -> Commands]
  /\ name \in [Processes -> Names \cup {NoName}]
  /\ id \in [Processes -> Identities \cup {NoId}]
  /\ cfg \in [Processes -> Configs]
  /\ late \in SUBSET Profiles
  /\ commands \in 0..MaxCommands /\ crashes \in 0..MaxCrashes
  /\ used \in SUBSET Identities
  /\ raced \in BOOLEAN /\ overlapped \in BOOLEAN
  /\ hurt \in BOOLEAN /\ registered \in BOOLEAN
  /\ taken \in SUBSET Words /\ unsaved \in SUBSET Words

NoConfig == [server |-> FALSE, nickname |-> NoName]

\* A new user, or one whose file an older version left without the key.
Init ==
  /\ DirectoryInit
  /\ ident \in {Absent, Keyless} /\ config = Absent
  /\ pc = [p \in Processes |-> "idle"]
  /\ cmd = [p \in Processes |-> "show"]
  /\ name = [p \in Processes |-> NoName]
  /\ id = [p \in Processes |-> NoId]
  /\ cfg = [p \in Processes |-> NoConfig]
  /\ late = {} /\ commands = 0 /\ crashes = 0
  /\ used = {} /\ taken = {} /\ unsaved = {}
  /\ raced = FALSE /\ overlapped = FALSE
  /\ hurt = FALSE /\ registered = FALSE

Others(p, places) == \E q \in Processes \ {p} : pc[q] \in places

Goto(p, place) == pc' = [pc EXCEPT ![p] = place]

\* The process is over; its memory is gone.
Exit(p) ==
  /\ Goto(p, "idle")
  /\ cmd' = [cmd EXCEPT ![p] = "show"]
  /\ name' = [name EXCEPT ![p] = NoName]
  /\ id' = [id EXCEPT ![p] = NoId]
  /\ cfg' = [cfg EXCEPT ![p] = NoConfig]

Begin(p, c, n) ==
  /\ pc[p] = "idle" /\ commands < MaxCommands
  /\ (n = NoName) <=> (c # "publish")
  /\ commands' = commands + 1
  /\ cmd' = [cmd EXCEPT ![p] = c]
  /\ name' = [name EXCEPT ![p] = n]
  /\ overlapped' = (overlapped \/ (c = "publish" /\ \E q \in Processes : cmd[q] = "publish"))
  /\ Goto(p, "look")
  /\ UNCHANGED <<entries, files, id, cfg, late, crashes, used, raced, hurt,
                 registered, taken, unsaved>>

-----------------------------------------------------------------------------
(* loadOrCreateIdentity and generateKeys *)

\* GenerateIdentity: new to everybody.
Generate(p) ==
  /\ \E i \in Identities \ (used \cup {ident} \cup {id[q] : q \in Processes}) :
       id' = [id EXCEPT ![p] = i]
  /\ raced' = (raced \/ Others(p, Making))
  /\ Goto(p, "openIdent")
  /\ UNCHANGED <<cmd, name, cfg>>

\* Fault: keys generate does not look.
FaultLookPresent(p) ==
  /\ pc[p] = "look" /\ ident # Absent
  /\ IF cmd[p] = "generate"
     THEN Generate(p)
     ELSE Goto(p, "load") /\ UNCHANGED <<cmd, name, id, cfg, raced>>
  /\ UNCHANGED <<entries, files, outside, used, overlapped, hurt, registered,
                 taken, unsaved>>

\* os.Stat finds a file, whatever is in it: generate refuses, the others load it.
LookPresent(p) ==
  /\ pc[p] = "look" /\ ident # Absent
  /\ IF cmd[p] = "generate"
     THEN Exit(p)
     ELSE Goto(p, "load") /\ UNCHANGED <<cmd, name, id, cfg>>
  /\ UNCHANGED <<entries, files, outside, flags>>

LookAbsent(p) ==
  /\ pc[p] = "look" /\ ident = Absent
  /\ Generate(p)
  /\ UNCHANGED <<entries, files, outside, used, overlapped, hurt, registered,
                 taken, unsaved>>

\* loadIdentityFromFile
Load(p) ==
  /\ pc[p] = "load"
  /\ \/ ident = Empty /\ Exit(p) /\ UNCHANGED raced
     \/ ident = Keyless /\ Generate(p)
     \/ /\ ident \in Identities
        /\ id' = [id EXCEPT ![p] = ident]
        /\ Goto(p, "run")
        /\ UNCHANGED <<cmd, name, cfg, raced>>
  /\ UNCHANGED <<entries, files, outside, used, overlapped, hurt, registered,
                 taken, unsaved>>

\* Fault: the key is used though it could not be saved.
FaultOpenIdent(p) ==
  /\ pc[p] = "openIdent"
  /\ Goto(p, "run")
  /\ UNCHANGED <<entries, files, cmd, name, id, cfg, outside, flags>>

\* saveIdentityToFile, emptying the file and writing it.
OpenIdent(p) ==
  /\ pc[p] = "openIdent"
  /\ ident' = Empty
  /\ Goto(p, "writeIdent")
  /\ UNCHANGED <<entries, config, cmd, name, id, cfg, outside, flags>>

\* All identity files are equally long, so the last writer's is whole.
WriteIdent(p) ==
  /\ pc[p] = "writeIdent"
  /\ ident' = id[p]
  /\ IF cmd[p] = "generate"
     THEN Exit(p)
     ELSE Goto(p, "run") /\ UNCHANGED <<cmd, name, id, cfg>>
  /\ UNCHANGED <<entries, config, outside, flags>>

-----------------------------------------------------------------------------
(* What a command does with its identity. *)

\* showKeys and the end of the terminal client.
Show(p) ==
  /\ pc[p] = "run" /\ cmd[p] = "show"
  /\ Exit(p)
  /\ UNCHANGED <<entries, files, outside, flags>>

Seen(p) == used' = used \cup {id[p]}

\* pollMessages of the terminal client: its first Connect, and later ones.
ClientConnects(p) ==
  /\ pc[p] = "run" /\ cmd[p] = "show"
  /\ Seen(p)
  /\ UNCHANGED <<entries, files, locals, outside, raced, overlapped, hurt,
                 registered, taken, unsaved>>

HasServer == config \in Configs /\ config.server

\* A command that ends here may have sent its requests all the same.
MaySend(p) ==
  \/ UNCHANGED <<late, used>>
  \/ /\ pc[p] = "run" /\ (cmd[p] = "send" => HasServer)
     /\ Seen(p)
     /\ late' = IF cmd[p] = "publish"
                THEN late \cup {[name |-> name[p], device |-> id[p]]}
                ELSE late

\* Connect fails, or the request to publish: the command says so and ends.
Refused(p) ==
  /\ pc[p] = "run" /\ cmd[p] # "show"
  /\ MaySend(p)
  /\ Exit(p)
  /\ UNCHANGED <<entries, files, commands, crashes, raced, overlapped, hurt,
                 registered, taken, unsaved>>

\* sendMessage; without a server in client.json it is Refused.
SendOnce(p) ==
  /\ pc[p] = "run" /\ cmd[p] = "send"
  /\ HasServer
  /\ Seen(p)
  /\ Exit(p)
  /\ UNCHANGED <<entries, files, outside, raced, overlapped, hurt, registered,
                 taken, unsaved>>

\* registerDevice: a new map, whatever client.json said.  The session may be
\* made and its answer lost.
Register(p) ==
  /\ pc[p] = "run" /\ cmd[p] = "register"
  /\ Seen(p)
  /\ \/ /\ cfg' = [cfg EXCEPT ![p] = [server |-> TRUE, nickname |-> NoName]]
        /\ Goto(p, "openConfig")
        /\ UNCHANGED <<cmd, name, id>>
     \/ Exit(p)
  /\ UNCHANGED <<entries, files, outside, raced, overlapped, hurt, registered,
                 taken, unsaved>>

\* Fault: the nickname is saved though the server was not reached.
FaultPublishProfile(p) ==
  /\ pc[p] = "run" /\ cmd[p] = "publish"
  /\ Goto(p, "readConfig")
  /\ UNCHANGED <<entries, files, cmd, name, id, cfg, outside, flags>>

\* publishProfile up to saveNickname.
PublishProfile(p) ==
  /\ pc[p] = "run" /\ cmd[p] = "publish"
  /\ Seen(p)
  /\ Publish(name[p], id[p])
  /\ taken' = taken \ {Norm[name[p]]}
  /\ unsaved' = unsaved \cup {Norm[name[p]]}
  /\ \/ Goto(p, "readConfig") /\ UNCHANGED <<cmd, name, id, cfg>>
     \/ Exit(p)
  /\ UNCHANGED <<files, outside, raced, overlapped, hurt, registered>>

\* Fault: the nickname goes into a new map.
FaultReadConfig(p) ==
  /\ pc[p] = "readConfig"
  /\ cfg' = [cfg EXCEPT ![p] = [server |-> FALSE, nickname |-> name[p]]]
  /\ Goto(p, "openConfig")
  /\ hurt' = (hurt \/ Others(p, Writing))
  /\ UNCHANGED <<entries, files, cmd, name, id, outside, used, raced,
                 overlapped, registered, taken, unsaved>>

\* loadClientConfig in saveNickname: what does not parse counts as nothing.
ReadConfig(p) ==
  /\ pc[p] = "readConfig"
  /\ cfg' = [cfg EXCEPT ![p] =
       [server |-> HasServer, nickname |-> name[p]]]
  /\ Goto(p, "openConfig")
  /\ hurt' = (hurt \/ Others(p, Writing))
  /\ UNCHANGED <<entries, files, cmd, name, id, outside, used, raced,
                 overlapped, registered, taken, unsaved>>

\* The WriteFile of registerDevice and saveNickname.
OpenConfig(p) ==
  /\ pc[p] = "openConfig"
  /\ config' = Empty
  /\ hurt' = (hurt \/ Others(p, Writing))
  /\ Goto(p, "writeConfig")
  /\ UNCHANGED <<entries, ident, cmd, name, id, cfg, outside, used, raced,
                 overlapped, registered, taken, unsaved>>

\* Over the text of a writer who came between, it may leave that one's tail.
WriteConfig(p) ==
  /\ pc[p] = "writeConfig"
  /\ config' \in {cfg[p]} \cup (IF config = Empty THEN {} ELSE {Mixed})
  /\ registered' = (registered \/ cmd[p] = "register")
  /\ unsaved' = IF cmd[p] = "publish" THEN unsaved \ {Norm[name[p]]} ELSE unsaved
  /\ Exit(p)
  /\ UNCHANGED <<entries, ident, outside, used, raced, overlapped, hurt, taken>>

-----------------------------------------------------------------------------
(* What others do, and failures. *)

\* A process dies.
Crash(p) ==
  /\ pc[p] # "idle" /\ crashes < MaxCrashes
  /\ crashes' = crashes + 1
  /\ hurt' = (hurt \/ pc[p] = "writeConfig")
  /\ MaySend(p)
  /\ Exit(p)
  /\ UNCHANGED <<entries, files, commands, raced, overlapped, registered,
                 taken, unsaved>>

\* A publish whose command is over reaches the server; nobody saves its nickname.
PublishArrives(r) ==
  /\ late' = late \ {r}
  /\ Publish(r.name, r.device)
  /\ taken' = taken \ {Norm[r.name]}
  /\ unsaved' = unsaved \cup {Norm[r.name]}
  /\ overlapped' = (overlapped \/ \E q \in Processes : cmd[q] = "publish")
  /\ UNCHANGED <<files, locals, commands, crashes, used, raced, hurt, registered>>

StrangerPublishes(n) ==
  /\ Publish(n, Stranger)
  /\ taken' = taken \cup {Norm[n]}
  /\ UNCHANGED <<files, locals, outside, used, raced, overlapped, hurt,
                 registered, unsaved>>

ServerRestart ==
  /\ DirectoryRestart
  /\ taken' = Words
  /\ UNCHANGED <<files, locals, outside, used, raced, overlapped, hurt,
                 registered, unsaved>>

Next ==
  \/ \E p \in Processes :
       \/ \E c \in Commands, n \in Names \cup {NoName} : Begin(p, c, n)
       \/ LookPresent(p) \/ LookAbsent(p) \/ Load(p) \/ OpenIdent(p) \/ WriteIdent(p)
       \/ Show(p) \/ ClientConnects(p) \/ Refused(p)
       \/ SendOnce(p) \/ Register(p) \/ PublishProfile(p)
       \/ ReadConfig(p) \/ OpenConfig(p) \/ WriteConfig(p) \/ Crash(p)
  \/ \E r \in late : PublishArrives(r)
  \/ \E n \in Names : StrangerPublishes(n)
  \/ ServerRestart

Spec == Init /\ [][Next]_vars

-----------------------------------------------------------------------------
(* Properties. *)

\* A file with a key in it, and nobody about to write another: loadOrCreateIdentity,
\* keys generate and the retry for a keyless file never replace it, whatever runs
\* together or dies.
Settled == ident \in Identities /\ \A p \in Processes : pc[p] \notin Making

IdentityKept == [][Settled => Settled' /\ ident' = ident]_vars

\* Unless two commands made an identity together, servers know this user by one
\* device id only: a command never connects with a key that is not in the file.
OneIdentity == ~raced => used \subseteq {ident}

\* What register saved stays: publishing later keeps the server's address, as long
\* as no two commands write client.json together and none dies while it writes.
ServerKept ==
  registered /\ ~hurt /\ (\A p \in Processes : pc[p] # "writeConfig")
    => HasServer

\* A command that has got past its identity works with the one in the file, and a
\* new one is made over no other, unless two made one together.  A profile that
\* others find or that is on its way leads to an identity sent before, or is theirs.
Past == {"run"} \cup Writing

OwnIdentity ==
  /\ \A r \in late : r.device \in used
  /\ \A w \in Words : entries[w] # NoEntry => entries[w].device \in used \cup {Stranger}
  /\ \A p \in Processes :
    /\ cmd[p] = "publish" <=> name[p] \in Names
    /\ pc[p] \in Past \cup Making => id[p] \in Identities
    /\ pc[p] \in Past /\ ~raced => ident = id[p]
    /\ pc[p] \in Making /\ ~raced => /\ ident \notin Identities /\ used = {}
                                     /\ ~Others(p, Making \cup Past)

\* A command that writes the file alone found the server's address in it, or is a
\* register and has it; others only wait to read it, or are registers.
WritesServer ==
  \A p \in Processes :
    /\ pc[p] = "readConfig" => cmd[p] = "publish"
    /\ pc[p] \in {"openConfig", "writeConfig"} /\ (cmd[p] = "register" \/ (registered /\ ~hurt))
         => cfg[p].server
    /\ pc[p] = "writeConfig" /\ ~hurt =>
         /\ config = Empty
         /\ ~Others(p, {"writeConfig"})
         /\ \A q \in Processes \ {p} : pc[q] = "openConfig" => cmd[q] = "register"

\* "Others can find you by searching for ..." (directory.go:118): the nickname in
\* client.json leads to this device, by lookup and by search, until somebody else
\* publishes it or the server restarts.
NicknameResolves ==
  (/\ ~raced /\ ~overlapped
   /\ config \in Configs /\ config.nickname \in Plain
   /\ Norm[config.nickname] \notin taken \cup unsaved)
  => LookupProfile(config.nickname) = {ident} /\ SearchProfiles(config.nickname) = {ident}

\* The entry of the nickname in client.json, or of the one that is about to be saved
\* there, is ours unless it was taken; before the first connection there is neither.
Ours(n) == entries[Norm[n]] = [name |-> n, device |-> ident]

NicknameInv ==
  /\ FiledByName
  /\ \A p \in Processes :
       /\ pc[p] \in Writing => used # {}
       /\ pc[p] \in {"openConfig", "writeConfig"} => cfg[p].nickname = name[p]
       /\ pc[p] \in Writing /\ cmd[p] = "publish" /\ ~raced /\ ~overlapped =>
            /\ Norm[name[p]] \in unsaved
            /\ Norm[name[p]] \notin taken => Ours(name[p])
  /\ ~overlapped => \A p, q \in Processes : cmd[p] = "publish" /\ cmd[q] = "publish" => p = q
  /\ config \in Configs /\ config.nickname # NoName =>
       /\ used # {}
       /\ ~raced /\ ~overlapped /\ Norm[config.nickname] \notin taken \cup unsaved
            => Ours(config.nickname)

IInv == TypeOK /\ OwnIdentity /\ OneIdentity /\ WritesServer /\ ServerKept /\ NicknameInv

=============================================================================
