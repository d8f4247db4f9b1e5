---------------------------- MODULE AuditorFiles ----------------------------
(***************************************************************************)
(* ClusterAuditor.from_files: the answers of a capture, saved in files and *)
(* given back by their paths, perhaps not the right file for each, and     *)
(* perhaps not an answer at all but what was saved when a request failed.  *)
(*                                                                         *)
(* A file is what its JSON says: an object with its keys, an array with    *)
(* its records, or nothing if it cannot be read.  An object fits if all    *)
(* its records fit their models.  A path that is not given is a file, too. *)
(***************************************************************************)
EXTENDS TopologyCapture

(* The records have the fields of their kind and no others; an exception   *)
(* is not None.                                                            *)
ASSUME RecordAssumption ==
  /\ \A q \in Queue : DOMAIN q = {"id", "queue_type", "dead_letter_exchange",
                                  "dead_letter_routing_key"}
  /\ \A x \in Exchange : DOMAIN x = {"id", "type", "internal", "alternate_exchange"}
  /\ None \notin {"analysis", "load", "resource_snapshot", "definitions"}

File(json, keys, format, fits, content) ==
  [json |-> json, keys |-> keys, format |-> format, fits |-> fits, content |-> content]

Unreadable == File("none", {}, None, FALSE, None)
NotGiven == File("absent", {}, None, FALSE, None)
Array(records) == File("array", {}, None, TRUE, records)

(* _validate_envelope: of these one must be there.                         *)
Sections == {"users", "vhosts", "permissions", "topic_permissions", "global_parameters",
             "parameters", "policies", "queues", "exchanges", "bindings"}

-----------------------------------------------------------------------------
(* Faulty IsDefinitions: any object whose records fit. *)
IsObject(file) == file.json = "object" /\ file.fits

(* ClusterDefinitionsResponse.                                             *)
IsDefinitions(file) ==
  /\ file.json = "object"
  /\ file.keys \cap {"error", "original_vhost_name"} = {}
  /\ file.keys \cap Sections # {}
  /\ file.format \in {None, "cluster"}
  /\ file.fits

(* QueueResponse asks for what only a listing has, node and state; but     *)
(* what ExchangeResponse asks for, exports have as well.                   *)
QueueFields == {"queue_type", "policy"}
ExchangeFields == {"type", "internal"}

(* A policy that is not given is None.                                     *)
AsListed(records) ==
  {IF "policy" \in DOMAIN r THEN r
   ELSE [id |-> r.id, type |-> r.type, internal |-> r.internal, policy |-> None,
         alternate_exchange |-> r.alternate_exchange] : r \in records}

(* _load_resource_snapshot, where a path is given.                         *)
SnapshotError(file, fields) ==
  IF file.json = "absent" THEN None
  ELSE IF file.json = "none" THEN "load"
  ELSE IF file.json = "array" /\ \A r \in file.content : fields \subseteq DOMAIN r THEN None
  ELSE "resource_snapshot"

DefinitionsError(file) ==
  IF file.json \in {"none", "absent"} THEN "load"
  ELSE IF IsDefinitions(file) THEN None
  ELSE "definitions"

(* What from_files raises before it parses anything, None if nothing.      *)
LoadError(files) ==
  IF (files.queues.json = "absent") # (files.exchanges.json = "absent") THEN "analysis"
  ELSE OrElse(DefinitionsError(files.definitions),
              OrElse(SnapshotError(files.queues, QueueFields),
                     SnapshotError(files.exchanges, ExchangeFields)))

(* What it gives to the parser.                                            *)
Loaded(files) ==
  LET listed(file) == IF file.json = "absent" THEN {} ELSE AsListed(file.content)
  IN  [files.definitions.content EXCEPT
         !.observed_queues = listed(files.queues),
         !.observed_exchanges = listed(files.exchanges),
         !.observing = (files.queues.json # "absent")]

-----------------------------------------------------------------------------
(* What may lie in the files after a capture: the answers, the body of an  *)
(* error, one page as it came, the export of a single virtual host, whose  *)
(* records do not name it, or the lists cut out of the export.             *)
Exported == [capture EXCEPT !.observed_queues = {}, !.observed_exchanges = {}, !.observing = FALSE]

Export == File("object", Sections, "cluster", TRUE, Exported)
OldExport == File("object", Sections, None, TRUE, Exported)
VhostExport ==
  File("object", (Sections \ {"vhosts"}) \cup {"original_vhost_name"}, "single_virtual_host",
       capture.queues \cup capture.exchanges \cup capture.policies = {},
       [Nothing EXCEPT !.vhosts = <<>>])
ErrorBody == File("object", {"error", "reason"}, None, TRUE, [Nothing EXCEPT !.vhosts = <<>>])
PageBody == File("object", {"items", "page_count"}, None, TRUE, [Nothing EXCEPT !.vhosts = <<>>])
QueueListing == Array(capture.observed_queues)
ExchangeListing == Array(capture.observed_exchanges)
ExportedQueues == Array(capture.queues)
ExportedExchanges == Array(capture.exchanges)

Saved == {Export, OldExport, VhostExport, ErrorBody, PageBody, QueueListing, ExchangeListing,
          ExportedQueues, ExportedExchanges, Unreadable}

RightFiles == [definitions |-> Export, queues |-> QueueListing, exchanges |-> ExchangeListing]

(***************************************************************************)
(* Files may be mixed up in any way, but what from_files makes of them     *)
(* does not mislead: it raises, or the topology has every resource of the  *)
(* export and no hop that was not in effect, and misses none of an         *)
(* exported resource.  One mistake escapes it: the exchanges cut out of    *)
(* the export pass for a listing, in which no exchange has a policy.       *)
(***************************************************************************)
FilesNeverMislead ==
  captured = Requests /\ outcome # "pending" /\ changes = 0 =>
    /\ LoadError(RightFiles) = None /\ Loaded(RightFiles) = capture
    /\ \A d \in Saved, q, x \in Saved \cup {NotGiven} :
         LET files == [definitions |-> d, queues |-> q, exchanges |-> x]
         IN  LoadError(files) = None /\ ~Rejects(Loaded(files)) =>
               LET topology == Loaded(files)
                   hops == DeadLetterEdges(topology) \cup AlternateExchangeEdges(topology)
                   exported == Ids(capture.queues) \cup Ids(capture.exchanges)
               IN  /\ exported \subseteq NodeIds(topology)
                   /\ hops \subseteq EffectiveHops
                   /\ x # ExportedExchanges =>
                        \A id \in exported : HopsFrom(hops, id) = HopsFrom(EffectiveHops, id)
=============================================================================
