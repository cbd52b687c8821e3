----------------------------- MODULE Directory -----------------------------
(***************************************************************************)
(* The directory of nicknames: server/directory.go with its handlers, and  *)
(* the lookups and searches of cmd/encli/directory.go.                     *)
(*                                                                         *)
(* An entry is filed under the HMAC of the nickname in lower case and      *)
(* without outer blanks (Norm), and encrypted with a key made of the same. *)
(* HMAC and AES-GCM are taken as perfect, but a search sends only the      *)
(* first 16 digits (Prefix), which two names may share.  A profile is      *)
(* printed into JSON unescaped, so a name with a quotation mark does not   *)
(* parse (Plain), and the client compares names without regard to case but *)
(* with their blanks (Fold).  Delete has no caller.                        *)
(***************************************************************************)
EXTENDS Naturals, FiniteSets

CONSTANTS Names,    \* nicknames as they are typed
          Words,    \* nicknames in lower case and without outer blanks
          Norm, Fold, Prefix, Plain,
          Devices,  \* device ids
          NoEntry

ASSUME DirectoryAssumption ==
  /\ Norm \in [Names -> Words]
  /\ Plain \subseteq Names
  /\ NoEntry \notin [name : Names, device : Devices]

VARIABLE entries  \* ds.entries, by the word whose HMAC is the key

DirectoryTypeOK == entries \in [Words -> [name : Names, device : Devices] \cup {NoEntry}]

DirectoryInit == entries = [w \in Words |-> NoEntry]

\* handleDirectoryPublish: the last publisher of a name has it.
Publish(n, d) ==
  entries' = [entries EXCEPT ![Norm[n]] = [name |-> n, device |-> d]]

\* A restart of the server.
DirectoryRestart == entries' = [w \in Words |-> NoEntry]

\* decryptProfile
Decrypts(q, e) ==
  /\ Norm[q] = Norm[e.name]
  /\ e.name \in Plain
  /\ Fold[q] = Fold[e.name]

\* The devices lookupProfile and searchDirectory find for q, at most one.
LookupProfile(q) ==
  {e.device : e \in {x \in {entries[Norm[q]]} \ {NoEntry} : Decrypts(q, x)}}

\* handleDirectorySearch
Search(p) == {entries[w] : w \in {v \in Words : Prefix[v] = p}} \ {NoEntry}

\* Fault: what does not decrypt is listed all the same.
FaultSearchProfiles(q) == {e.device : e \in Search(Prefix[Norm[q]])}

\* The devices searchProfiles lists for q.
SearchProfiles(q) ==
  {e.device : e \in {x \in Search(Prefix[Norm[q]]) : Decrypts(q, x)}}

\* An entry is where the word of its name says.
FiledByName == \A w \in Words : entries[w] # NoEntry => Norm[entries[w].name] = w

\* Searching and looking up give the same answer, though a search asks with a
\* part of the key and gets other people's entries too.
SearchAgrees == \A q \in Names : SearchProfiles(q) = LookupProfile(q)

=============================================================================
