---------------------------- MODULE ReadersSession ----------------------------
(***************************************************************************)
(* The commands that only read a client: a session is either an            *)
(* extraction with its verification, or a resolver of fixed controls that  *)
(* answers while the client's files change (decode-fixed, resolve-message  *)
(* and the library's Resolver).                                            *)
(***************************************************************************)
EXTENDS Extraction, Registry

NoExtraction ==
  /\ origin = <<>> /\ disk = <<>>
  /\ request = Absent /\ output = Absent /\ change = "none" /\ verdict = Absent

NoResolver ==
  /\ locale = Absent /\ files = <<>>
  /\ cache = EmptyCache /\ asked = Absent /\ known = {} /\ changes = 0

SessionInit == (Init /\ NoResolver) \/ (NoExtraction /\ ResolverInit)

SessionNext ==
  \/ locale = Absent /\ Next /\ UNCHANGED resolverVars
  \/ locale # Absent /\ ResolverNext /\ UNCHANGED vars

SessionSpec == SessionInit /\ [][SessionNext]_<<vars, resolverVars>>

\* The same resolver over files that are all the pinned ones.
Intact == INSTANCE Registry WITH files <- [id \in FileIds |-> 0]

Fresh(kind, of) ==
  IF kind = "lookup" THEN Intact!Resolve(EmptyCache, Lookups[of]).value
  ELSE Intact!ResolveMessage(EmptyCache, Messages[of]).value

(* Whatever the client's files become, a resolver either refuses or answers  *)
(* as a new one would over the pinned files: nothing it read from a changed  *)
(* file, or kept from before, reaches an answer, even when a lookup it       *)
(* refused had read some of its files.  And what it has answered once it     *)
(* answers again, though its files are gone (Resolver::resolve, load,        *)
(* read_pin).                                                                *)
AnswersPinned ==
  asked # Absent =>
    IF asked.answer = Refused THEN ~asked.before
    ELSE asked.answer = Fresh(asked.kind, asked.of)
=============================================================================
