------------------------------- MODULE Gateway -------------------------------
(* The two readings of a suite package's mock files, and whether they meet.  *)
(*                                                                           *)
(* When a suite is pulled from a registry its mock/*.metadata.yaml and       *)
(* api/*.yaml files are parsed twice: parseOCISurfaces builds the operations *)
(* of the mock engine, parseAPISurfaces builds the routes of the APISIX      *)
(* sidecar (apisix.RenderStandaloneConfig).  A route forwards a request to   *)
(* /mocks/rest/<suite>/<surface>/<path>, where lookupRESTOperation searches  *)
(* the engine's operations by method and path.  Both parsers iterate over Go *)
(* maps, so the order of the operations, the description that wins when two  *)
(* share a key, and the host that counts as the global one are free choices, *)
(* made independently by each parser.                                        *)
(*                                                                           *)
(* Operation ids are strings with a known normal form; a path is a sequence  *)
(* of segments; of a server URL only the scheme matters.                     *)
EXTENDS Integers, Sequences, FiniteSets, SequencesExt

CONSTANTS Metas,       \* the mock metadata files a package may hold
          Descriptions,\* the operations an OpenAPI document may describe
          MaxMetas, MaxDescriptions

VARIABLES meta,        \* the package's mock/*.metadata.yaml files
          api,         \* the operations its api/*.yaml files describe
          contracts,   \* it has api/*.proto files
          wsdl,        \* it has a WSDL file
          engine,      \* the mock engine's surfaces (parseOCISurfaces)
          gateway,     \* the sidecar's routes (RenderStandaloneConfig)
          loaded       \* buildDefinition has run

gatewayVars == <<meta, api, contracts, wsdl, engine, gateway, loaded>>

HttpTransports == {"rest", "soap"}
StreamBase == [mqtt |-> 9100, tcp |-> 9200, udp |-> 9300]

(* normalizeOpKey: dashes, underscores and case do not count *)
NormalizeOpKey(id) ==
  CASE id \in {"create-order", "create_order", "createOrder"} -> "createorder"
    [] id \in {"get-order", "getOrder"} -> "getorder"
    [] OTHER -> id

IsParam(segment) == segment \in {"{id}", "{key}"}

-----------------------------------------------------------------------------
(* What one pass over the files may find: an order of the metadata files, a  *)
(* description per key, the global host.                                     *)
Keys == {NormalizeOpKey(d.id) : d \in api}

Passes ==
  [order : SetToSeqs(meta),
   detail : {f \in [Keys -> api] : \A k \in Keys : NormalizeOpKey(f[k].id) = k},
   host : IF api = {} THEN {""} ELSE {d.host : d \in api}]

Described(pass, m) == NormalizeOpKey(m.id) \in DOMAIN pass.detail
Detail(pass, m) == pass.detail[NormalizeOpKey(m.id)]

(* the surfaces in the order their first operation is met *)
SurfaceOrder(order) ==
  LET ids == [i \in DOMAIN order |-> order[i].surface]
      First(i) == \A j \in 1..(i - 1) : ids[j] # ids[i]
  IN  SelectSeq([i \in DOMAIN order |-> IF First(i) THEN ids[i] ELSE ""],
                LAMBDA s : s # "")

OfSurface(order, s) == SelectSeq(order, LAMBDA m : m.surface = s)

(* parseOCISurfaces: an operation takes method and path from its description *)
(* and otherwise is a POST on the path its runtimeUrl ends with              *)
EngineOperation(pass, m) ==
  IF Described(pass, m)
    THEN [id |-> m.id, method |-> Detail(pass, m).method, path |-> Detail(pass, m).path]
    ELSE [id |-> m.id, method |-> "POST", path |-> m.runtime]

ParseOCISurfaces(pass) ==
  LET ids == SurfaceOrder(pass.order)
  IN  [i \in DOMAIN ids |->
        [id |-> ids[i],
         operations |-> LET ops == OfSurface(pass.order, ids[i])
                        IN [k \in DOMAIN ops |-> EngineOperation(pass, ops[k])]]]

-----------------------------------------------------------------------------
(* parseAPISurfaces *)
GatewayDefaultMethod(adapter) ==
  CASE adapter = "grpc" -> "RPC" [] adapter = "async" -> "EVENT" [] OTHER -> "POST"

GatewayProtocol(adapter) ==
  CASE adapter = "grpc" -> "grpc" [] adapter = "async" -> "async"
    [] OTHER -> IF wsdl THEN "soap" ELSE "rest"

GatewayOperation(pass, m) ==
  [id |-> m.id, adapter |-> m.adapter,
   method |-> IF Described(pass, m) THEN Detail(pass, m).method
                                    ELSE GatewayDefaultMethod(m.adapter),
   path |-> IF Described(pass, m) THEN Detail(pass, m).path ELSE <<m.id>>]

(* the first host a described operation of the surface names, else the global one *)
MockHost(pass, ops) ==
  LET named == SelectSeq(ops, LAMBDA m : Described(pass, m) /\ Detail(pass, m).host # "")
  IN  IF named = <<>> THEN pass.host ELSE Detail(pass, named[1]).host

ParseAPISurfaces(pass) ==
  LET ids == SurfaceOrder(pass.order)
  IN  [i \in DOMAIN ids |->
        LET ops == OfSurface(pass.order, ids[i])
        IN  [id |-> ids[i], protocol |-> GatewayProtocol(ops[1].adapter),
             host |-> MockHost(pass, ops),
             operations |-> [k \in DOMAIN ops |-> GatewayOperation(pass, ops[k])]]]

-----------------------------------------------------------------------------
(* apisix: the transport of a surface decides what its operations become.    *)
AsyncTransportScheme(host) ==
  IF host \in {"kafka", "amqp", "nats"} \cup DOMAIN StreamBase THEN host ELSE "async"

TransportKind(surface) ==
  IF surface.protocol = "async" THEN AsyncTransportScheme(surface.host) ELSE surface.protocol

(* a mutant: a sidecar route accepts POST only *)
PostOnly(op) == "POST"

(* httpMethod *)
HttpMethod(op) == IF op.method \in {"", "RPC", "EVENT"} THEN "POST" ELSE op.method

(* matchURI: path parameters become wildcards *)
MatchURI(op) == [i \in DOMAIN op.path |-> IF IsParam(op.path[i]) THEN "*" ELSE op.path[i]]

HttpCompatibleRoute(surface, op) ==
  [kind |-> "http", id |-> op.id, surface |-> surface.id, adapter |-> op.adapter,
   method |-> HttpMethod(op), uri |-> MatchURI(op), port |-> 0]

(* grpcRoute: without a contract the operation is deferred *)
GrpcRoute(surface, op) ==
  [kind |-> IF op.adapter = "grpc" /\ contracts THEN "grpc" ELSE "deferred",
   id |-> op.id, surface |-> surface.id, adapter |-> op.adapter,
   method |-> "POST", uri |-> op.path, port |-> 0]

(* kafkaRoute, and newDeferredAdapter for what the sidecar cannot serve *)
OtherRoute(surface, op, kind) ==
  [kind |-> kind, id |-> op.id, surface |-> surface.id, adapter |-> op.adapter,
   method |-> HttpMethod(op), uri |-> op.path, port |-> 0]

(* streamRouteResource: every stream route listens on the next port of its transport *)
StreamRoute(surface, op, port) ==
  [OtherRoute(surface, op, "stream") EXCEPT !.port = port]

Resource(surface, op, port) ==
  LET transport == TransportKind(surface)
  IN  CASE transport \in HttpTransports -> HttpCompatibleRoute(surface, op)
        [] transport = "grpc" -> GrpcRoute(surface, op)
        [] transport = "kafka" -> OtherRoute(surface, op, "kafka")
        [] transport \in DOMAIN StreamBase -> StreamRoute(surface, op, port)
        [] OTHER -> OtherRoute(surface, op, "deferred")

(* buildResources: operations in the order of surfaces, streams counted as   *)
(* they come; the sidecar's document lists them sorted by id, which decides  *)
(* nothing here                                                              *)
BuildResources(surfaces) ==
  LET flat == FoldSeq(LAMBDA s, acc : acc \o [k \in DOMAIN s.operations |-> <<s, s.operations[k]>>],
                      <<>>, surfaces)
      Transport(i) == TransportKind(flat[i][1])
      Port(i) == IF Transport(i) \notin DOMAIN StreamBase THEN 0
                 ELSE StreamBase[Transport(i)]
                        + Cardinality({j \in 1..(i - 1) : Transport(j) = Transport(i)})
  IN  [i \in DOMAIN flat |-> Resource(flat[i][1], flat[i][2], Port(i))]

-----------------------------------------------------------------------------
(* A request the sidecar hands to route r, as proxyRewrite forwards it: the   *)
(* wildcards of the route's pattern hold the values the caller sent.          *)
Requests(r) ==
  {[surface |-> r.surface, method |-> r.method,
    path |-> [i \in DOMAIN r.uri |-> IF r.uri[i] = "*" THEN v ELSE r.uri[i]]] : v \in {"7", "latest"}}

(* matchOperationPath *)
MatchOperationPath(pattern, path) ==
  /\ Len(pattern) = Len(path)
  /\ \A i \in DOMAIN pattern : IsParam(pattern[i]) \/ pattern[i] = path[i]

(* lookupRESTOperation: the first operation of the surface with that method  *)
(* and path; parseOCISurfaces calls every surface REST, so no adapter is     *)
(* passed over                                                               *)
FitsPath(op, request) == op.method = request.method /\ MatchOperationPath(op.path, request.path)

SurfaceOperations(id) ==
  LET i == SelectInSeq(engine, LAMBDA s : s.id = id)
  IN  IF i = 0 THEN <<>> ELSE engine[i].operations

LookupRESTOperation(request) ==
  LET ops == SurfaceOperations(request.surface)
      i == SelectInSeq(ops, LAMBDA op : FitsPath(op, request))
  IN  IF i = 0 THEN "not_found" ELSE ops[i].id

-----------------------------------------------------------------------------
GatewayInit ==
  /\ meta = {} /\ api = {} /\ contracts = FALSE /\ wsdl = FALSE
  /\ engine = <<>> /\ gateway = <<>> /\ loaded = FALSE

(* the author adds a file to the package *)
AddMeta(m) ==
  /\ ~loaded /\ m \notin meta /\ Cardinality(meta) < MaxMetas
  /\ meta' = meta \cup {m}
  /\ UNCHANGED <<api, contracts, wsdl, engine, gateway, loaded>>

AddDescription(d) ==
  /\ ~loaded /\ d \notin api /\ Cardinality(api) < MaxDescriptions
  /\ api' = api \cup {d}
  /\ UNCHANGED <<meta, contracts, wsdl, engine, gateway, loaded>>

AddContract ==
  /\ ~loaded
  /\ \/ contracts' = TRUE /\ UNCHANGED wsdl
     \/ wsdl' = TRUE /\ UNCHANGED contracts
  /\ UNCHANGED <<meta, api, engine, gateway, loaded>>

(* buildDefinition: each parser makes its own pass over the files *)
BuildDefinition ==
  /\ ~loaded /\ meta # {}
  /\ \E p, q \in Passes :
       /\ engine' = ParseOCISurfaces(p)
       /\ gateway' = BuildResources(ParseAPISurfaces(q))
  /\ loaded' = TRUE
  /\ UNCHANGED <<meta, api, contracts, wsdl>>

GatewayNext ==
  \/ \E m \in Metas : AddMeta(m)
  \/ \E d \in Descriptions : AddDescription(d)
  \/ AddContract
  \/ BuildDefinition

GatewaySpec == GatewayInit /\ [][GatewayNext]_gatewayVars

-----------------------------------------------------------------------------
OneDescription(m) == Cardinality({d \in api : NormalizeOpKey(d.id) = NormalizeOpKey(m.id)}) = 1
OneAdapter(s) == Cardinality({m.adapter : m \in {n \in meta : n.surface = s}}) = 1
Routes(m) == {i \in DOMAIN gateway : gateway[i].id = m.id /\ gateway[i].surface = m.surface}

(* an operation before m's in the surface whose pattern the request fits too *)
Overlapped(m, request) ==
  LET ops == SurfaceOperations(m.surface)
      at == SelectInSeq(ops, LAMBDA op : op.id = m.id)
  IN  \E k \in 1..(at - 1) : FitsPath(ops[k], request)

Reached(m, i) ==
  \A request \in Requests(gateway[i]) :
    IF Overlapped(m, request) THEN LookupRESTOperation(request) # "not_found"
                              ELSE LookupRESTOperation(request) = m.id

(* Whatever order the two parsers meet the files in, a REST operation that   *)
(* exactly one OpenAPI operation describes, on a surface of REST operations, *)
(* becomes an HTTP route whose forwarded requests that operation answers in  *)
(* the mock engine, or, where patterns overlap, the operation met before it; *)
(* every operation becomes exactly one resource of the sidecar, and no two   *)
(* stream routes listen on one port.  Which of two overlapping operations is *)
(* met first is as free as the order of the map the parser ranges over.      *)
DescribedRoutesReach ==
  loaded =>
    /\ \A m \in meta : Cardinality(Routes(m)) = 1
    /\ \A m \in meta : (m.adapter = "rest" /\ OneAdapter(m.surface) /\ OneDescription(m)) =>
         \A i \in Routes(m) : gateway[i].kind = "http" /\ Reached(m, i)
    /\ \A i, j \in DOMAIN gateway :
         (i # j /\ gateway[i].kind = "stream" /\ gateway[j].kind = "stream")
           => gateway[i].port # gateway[j].port
=============================================================================
