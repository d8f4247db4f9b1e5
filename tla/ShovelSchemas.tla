--------------------------- MODULE ShovelSchemas ---------------------------
(***************************************************************************)
(* resources/v4/shovels/schemas: how the definition of a shovel, nested in *)
(* the program, travels as one flat object and is split again when it is   *)
(* read back.  A key of the flat object is a pair of its prefix and the    *)
(* rest; values are left out but for None and the defaults.                *)
(***************************************************************************)
EXTENDS TLC, ManagementApi

Protocol == {"amqp091", "local", "amqp10"}
Side == {"src", "dest"}

ASSUME NoneIsNoProtocol == None \notin Protocol

(* The fields of Amqp091Shovel..., LocalShovel... and Amqp10Shovel...      *)
QueueOrExchange == {"queue", "queue-args", "exchange", "exchange-key", "predeclared"}
Headers == {"add-forward-headers", "add-timestamp-header"}

Fields(side, protocol) ==
  IF side = "src"
  THEN IF protocol = "amqp10" THEN {"address", "prefetch-count"}
       ELSE QueueOrExchange \cup {"consumer-name", "consumer-args", "prefetch-count"}
  ELSE IF protocol = "amqp10"
       THEN Headers \cup {"address", "application-properties", "properties", "message-annotations"}
       ELSE QueueOrExchange \cup Headers \cup {"publish-properties"}

(* The models of the answer know one field more.                           *)
ResponseFields(side, protocol) ==
  Fields(side, protocol) \cup
    (IF side = "src" /\ protocol = "amqp10" THEN {"consumer-name"} ELSE {})

Default(field) ==
  CASE field \in Headers \cup {"predeclared"} -> "false"
    [] field = "prefetch-count"               -> "1000"
    [] OTHER                                  -> None

(* ShovelRequest: the common fields, with their defaults, and two sides.   *)
Common == {<<"src", "uri">>, <<"dest", "uri">>, <<"", "ack-mode">>,
           <<"", "reconnect-delay">>, <<"src", "delete-after">>}

CommonDefault(key) ==
  CASE key = <<"", "ack-mode">>        -> "on-confirm"
    [] key = <<"", "reconnect-delay">> -> "1"
    [] key = <<"src", "delete-after">> -> "never"
    [] OTHER                           -> None

Arguments(side, protocol, given) ==
  [protocol |-> protocol, values |-> given @@ [f \in Fields(side, protocol) |-> Default(f)]]

ShovelRequest(given, src, dest) ==
  [common |-> given @@ [key \in Common |-> CommonDefault(key)], src |-> src, dest |-> dest]

(* Only a field whose default is None may be None; and the validators of   *)
(* the two sides and of the whole request.                                 *)
IsValidSide(side, arguments) ==
  LET v == arguments.values
  IN IF arguments.protocol = "amqp10" THEN v["address"] # None
     ELSE /\ v["queue"] = None \/ v["exchange"] = None
          /\ side = "src" => /\ v["queue"] # None \/ v["exchange"] # None
                             /\ v["exchange"] # None => v["exchange-key"] # None

IsValid(request) ==
  /\ request = [common |-> request.common, src |-> request.src, dest |-> request.dest]
  /\ request.common = [key \in Common |-> request.common[key]]
  /\ \A key \in Common : request.common[key] # None
  /\ \A side \in Side :
       LET arguments == request[side]
           fields == Fields(side, arguments.protocol)
       IN /\ arguments.protocol \in Protocol
          /\ arguments.values = [f \in fields |-> arguments.values[f]]
          /\ \A f \in fields : Default(f) # None => arguments.values[f] # None
  /\ \A side \in Side : IsValidSide(side, request[side])
  /\ request.common[<<"src", "delete-after">>] \notin {"never", "queue-length"} =>
       request.common[<<"", "ack-mode">>] # "no-ack"

-----------------------------------------------------------------------------
(* model_dump with exclude_none.                                           *)
Dumped(fields) == [f \in {g \in DOMAIN fields : fields[g] # None} |-> fields[f]]

Flattened(side, arguments) ==
  LET dumped == Dumped(arguments.values)
  IN [key \in {side} \X ({"protocol"} \cup DOMAIN dumped) |->
        IF key[2] = "protocol" THEN arguments.protocol ELSE dumped[key[2]]]

(* left | right: the right one wins.                                       *)
Merged(left, right) ==
  [key \in DOMAIN left \cup DOMAIN right |->
     IF key \in DOMAIN right THEN right[key] ELSE left[key]]

(* Faulty ToApiValue: the protocol is omitted with the other defaults.     *)
CompactApiValue(request) ==
  LET compact(side) == [key \in {side} \X DOMAIN Dumped(request[side].values) |->
                          request[side].values[key[2]]]
  IN compact("dest") @@ compact("src") @@ Dumped(request.common)

(* to_api_value: the common fields and both sides in one object.           *)
ToApiValue(request) ==
  Merged(Merged(Dumped(request.common), Flattened("src", request.src)),
         Flattened("dest", request.dest))

(* _split_flat_value: these keys belong to a side, all others are common.  *)
SideKeys(side) ==
  {side} \X ({"protocol"} \cup UNION {ResponseFields(side, p) : p \in Protocol})

(* ShovelResponse, of an object that fits its models.                      *)
ParsedSide(side, flat) ==
  LET given == DOMAIN flat \cap SideKeys(side)
      protocol == IF <<side, "protocol">> \in given THEN flat[<<side, "protocol">>] ELSE "amqp091"
  IN [protocol |-> protocol,
      values |-> [f \in ResponseFields(side, protocol) |->
                    IF <<side, f>> \in given THEN flat[<<side, f>>] ELSE Default(f)]]

ParsedCommon(flat) ==
  LET rest == DOMAIN flat \ UNION {SideKeys(side) : side \in Side}
  IN [key \in Common |-> IF key \in rest THEN flat[key] ELSE CommonDefault(key)]

Fits(flat) ==
  /\ \A side \in Side : ParsedSide(side, flat).protocol = "amqp10" =>
                        ParsedSide(side, flat).values["address"] # None
  /\ \A key \in Common : ParsedCommon(flat)[key] # None

(* Does what was read back say what was asked for?                         *)
Echoes(flat, request) ==
  /\ Fits(flat)
  /\ ParsedCommon(flat) = request.common
  /\ \A side \in Side :
       LET response == ParsedSide(side, flat)
       IN /\ response.protocol = request[side].protocol
          /\ \A f \in DOMAIN response.values :
               response.values[f] =
                 IF f \in DOMAIN request[side].values THEN request[side].values[f] ELSE Default(f)
=============================================================================
