------------------------------- MODULE Routes -------------------------------
(***************************************************************************)
(* servicedrop.Route: a tree of routes, one per segment of a path.  New    *)
(* adds the routes of a path, Child finds the route of one, InvertRoute    *)
(* hangs a route on what another rejects.  Routes are joined twice: a      *)
(* child is in childRoutes of its parent, behind a lock, where New and     *)
(* Child look for it, and it is subscribed to the socket Valid of its      *)
(* parent, from which it gets its requests.                                *)
(*                                                                         *)
(* A request is a path and a payload, which a root that was made with a    *)
(* Failure packs; what becomes of it then is module PayloadRack.  Here it  *)
(* counts where the request goes.                                          *)
(*                                                                         *)
(* Routes are numbered as they are made; the root is 1 and 0 is no route.  *)
(***************************************************************************)
EXTENDS Integers, Sequences

CONSTANTS
  Segments,         \* segments of paths, each the pattern for itself
  Wild,             \* patterns that match every segment
  Root,             \* the pattern of the root
  Registrars,       \* the calls of New
  Path,             \* Path[g]: the path it adds under the root
  Finders,          \* the calls of Child
  Diverts,          \* the patterns of the calls of InvertRoute
  Queries,          \* the paths that may be requested
  MaxRoutes         \* bound: routes made

ASSUME RoutesAssumption ==
  /\ Wild \subseteq Segments /\ Root \in Segments
  /\ Path \in [Registrars -> Seq(Segments)]
  /\ Queries \subseteq Seq(Segments) \ {<<>>}
  /\ Diverts \subseteq Segments
  /\ MaxRoutes \in Nat \ {0}

VARIABLES
  made,             \* routes made so far
  parent,           \* the route each is subscribed to
  pattern,          \* the pattern of each
  inverted,         \* those subscribed to Invalid
  childRoutes,      \* childRoutes[r][s]: the child of r for s
  new,              \* each New: where it is, at which route, with what left
  overlapped,       \* those that ran while another was running
  find,             \* each Child: where it is, at which route, with what left
  query,            \* the request: its path, the New that had returned by
                    \* then, and the routes that Child had found
  pending,          \* routes it is on its way to, with the segments left
  received,         \* routes whose Valid it has reached
  rejected,         \* routes whose Invalid it has reached
  failure,          \* the root was made with a Failure
  packed            \* the payload is in a rack

tree    == <<made, parent, pattern, inverted, childRoutes>>
calls   == <<new, overlapped, find>>
request == <<query, pending, received, rejected, failure, packed>>
vars    == <<tree, calls, request>>

Ids == 1 .. MaxRoutes

Init ==
  /\ made = 1
  /\ parent = [r \in Ids |-> 0]
  /\ pattern = [r \in Ids |-> Root]
  /\ inverted = {}
  /\ childRoutes = [r \in Ids |-> [s \in Segments |-> 0]]
  /\ new = [g \in Registrars |-> [pc |-> "none", at |-> 1, left |-> Path[g]]]
  /\ overlapped = {}
  /\ find = [f \in Finders |-> [pc |-> "none", at |-> 1, left |-> <<>>, path |-> <<>>, known |-> {}]]
  /\ query = [path |-> <<>>, known |-> {}, found |-> {}]
  /\ pending = {}
  /\ received = {}
  /\ rejected = {}
  /\ failure \in BOOLEAN
  /\ packed = FALSE

-----------------------------------------------------------------------------
(* New *)

Running(g) == new[g].pc \in {"looking", "inserting"}
Returned == {g \in Registrars : new[g].pc = "done"}

NewCall(g) ==
  /\ new[g].pc = "none"
  /\ new' = [new EXCEPT ![g].pc = "looking"]
  /\ overlapped' = LET others == {h \in Registrars : Running(h)} IN
                   IF others = {} THEN overlapped ELSE overlapped \cup others \cup {g}
  /\ UNCHANGED <<tree, find, request>>

(* "vs = vs[1:]", for the rest of the path, in New and in Child.           *)
(* Faulty variant: nothing is left. *)
NothingLeft(p) == <<>>
RestOf(p) == Tail(p)

(* A New or Child with segments left looks the first one up. *)
Looking(call) == call.pc = "looking" /\ call.left /= <<>>
Lookup(call) == childRoutes[call.at][Head(call.left)]

(* There is a route for it: New goes on at that one.                       *)
Descend(g) ==
  /\ Looking(new[g])
  /\ Lookup(new[g]) /= 0
  /\ new' = [new EXCEPT ![g].at = Lookup(new[g]), ![g].left = RestOf(@)]
  /\ UNCHANGED <<tree, overlapped, find, request>>

(* FromRoute and InvertRoute subscribe a new route to a socket of r. *)
Subscribe(r, s) ==
  /\ made < MaxRoutes
  /\ made' = made + 1
  /\ parent' = [parent EXCEPT ![made + 1] = r]
  /\ pattern' = [pattern EXCEPT ![made + 1] = s]
  /\ UNCHANGED childRoutes

(* There is none: New makes one, ... *)
FromRoute(g) ==
  /\ Looking(new[g])
  /\ Lookup(new[g]) = 0
  /\ Subscribe(new[g].at, Head(new[g].left))
  /\ new' = [new EXCEPT ![g] = [pc |-> "inserting", at |-> made + 1, left |-> RestOf(@.left)]]
  /\ UNCHANGED <<inverted, overlapped, find, request>>

(* ... and enters it, over one that another New may have entered since.    *)
(* Faulty variant: under the name of its parent. *)
UnderParent(r) == pattern[parent[r]]
UnderName(r) == pattern[r]

Insert(g) ==
  /\ new[g].pc = "inserting"
  /\ childRoutes' = [childRoutes EXCEPT ![parent[new[g].at]][UnderName(new[g].at)] = new[g].at]
  /\ new' = [new EXCEPT ![g].pc = "looking"]
  /\ UNCHANGED <<made, parent, pattern, inverted, overlapped, find, request>>

NewReturns(g) ==
  /\ new[g].pc = "looking"
  /\ new[g].left = <<>>
  /\ new' = [new EXCEPT ![g].pc = "done"]
  /\ UNCHANGED <<tree, overlapped, find, request>>

InvertRoute(r, s) ==
  /\ r <= made
  /\ Subscribe(r, s)
  /\ inverted' = inverted \cup {made + 1}
  /\ UNCHANGED <<calls, request>>

-----------------------------------------------------------------------------
(* Child *)

ChildCall(f, p) ==
  /\ find[f].pc = "none"
  /\ find' = [find EXCEPT ![f] = [pc |-> "looking", at |-> 1, left |-> p, path |-> p,
                                  known |-> Returned \ overlapped]]
  /\ UNCHANGED <<tree, new, overlapped, request>>

ChildNext(f) ==
  /\ Looking(find[f])
  /\ LET d == Lookup(find[f]) IN
     find' = [find EXCEPT ![f].at = d, ![f].left = RestOf(@), ![f].pc = IF d = 0 THEN "done" ELSE @]
  /\ UNCHANGED <<tree, new, overlapped, request>>

ChildReturns(f) ==
  /\ find[f].pc = "looking"
  /\ find[f].left = <<>>
  /\ find' = [find EXCEPT ![f].pc = "done"]
  /\ UNCHANGED <<tree, new, overlapped, request>>

-----------------------------------------------------------------------------
(* A request *)

Found == {find[f].at : f \in {f \in Finders : find[f].pc = "done"}} \ {0}

Serve(p) ==
  /\ query.path = <<>>
  /\ query' = [path |-> p, known |-> Returned, found |-> Found]
  /\ pending' = {<<1, p>>}
  /\ UNCHANGED <<tree, calls, received, rejected, failure, packed>>

Validate(p, s) == p = s \/ p \in Wild

(* "if len(paths) > 1".  Faulty variant: the first segment always goes. *)
DropFirst(p) == Tail(p)
FromRequest(p) == IF Len(p) <= 1 THEN p ELSE Tail(p)

(* Faulty variants: only those that are in childRoutes; those that         *)
(* InvertRoute has hung on the other socket, too.                          *)
BothSockets(r) == {c \in 2 .. made : parent[c] = r}
Entered(r) == {childRoutes[r][s] : s \in Segments} \ {0}
Subscribed(r) == {c \in 2 .. made : parent[c] = r /\ c \notin inverted}
Diverted(r) == {c \in 2 .. made : parent[c] = r /\ c \in inverted}

(* A route with a Failure, which it has from the root, packs the payload    *)
(* unless that has been done, then it looks at the path.                    *)
Pack == packed' = (packed \/ failure)

Valid(r, p) ==
  /\ <<r, p>> \in pending
  /\ Validate(pattern[r], Head(p))
  /\ Pack
  /\ received' = received \cup {r}
  /\ pending' = (pending \ {<<r, p>>}) \cup {<<c, FromRequest(p)>> : c \in Subscribed(r)}
  /\ UNCHANGED <<tree, calls, query, rejected, failure>>

Invalid(r, p) ==
  /\ <<r, p>> \in pending
  /\ ~Validate(pattern[r], Head(p))
  /\ Pack
  /\ rejected' = rejected \cup {r}
  /\ pending' = (pending \ {<<r, p>>}) \cup {<<c, p>> : c \in Diverted(r)}
  /\ UNCHANGED <<tree, calls, query, received, failure>>

-----------------------------------------------------------------------------
Next ==
  \/ \E g \in Registrars : NewCall(g) \/ Descend(g) \/ FromRoute(g) \/ Insert(g) \/ NewReturns(g)
  \/ \E r \in Ids, s \in Diverts : InvertRoute(r, s)
  \/ \E f \in Finders, g \in Registrars : ChildCall(f, Path[g])
  \/ \E f \in Finders : ChildNext(f) \/ ChildReturns(f)
  \/ \E p \in Queries : Serve(p)
  \/ \E m \in pending : Valid(m[1], m[2]) \/ Invalid(m[1], m[2])

Spec == Init /\ [][Next]_vars

-----------------------------------------------------------------------------
(* Properties *)

(* In particular no route gets a request without a segment to look at: the  *)
(* code reads Paths[0] unasked.                                             *)
TypeOK ==
  /\ made \in Ids
  /\ parent \in [Ids -> 0 .. MaxRoutes]
  /\ pattern \in [Ids -> Segments]
  /\ inverted \subseteq 2 .. made
  /\ childRoutes \in [Ids -> [Segments -> 0 .. made]]
  /\ new \in [Registrars -> [pc : {"none", "looking", "inserting", "done"},
                             at : 1 .. made, left : Seq(Segments)]]
  /\ overlapped \subseteq Registrars
  /\ find \in [Finders -> [pc : {"none", "looking", "done"}, at : 0 .. made, left : Seq(Segments),
                           path : Seq(Segments), known : SUBSET Registrars]]
  /\ query \in [path : Seq(Segments), known : SUBSET Registrars, found : SUBSET (1 .. made)]
  /\ pending \subseteq (1 .. made) \X (Seq(Segments) \ {<<>>})
  /\ received \subseteq 1 .. made
  /\ rejected \subseteq 1 .. made
  /\ failure \in BOOLEAN /\ packed \in BOOLEAN

(* The patterns from the root down to r. *)
Chain[r \in Ids] == IF parent[r] = 0 THEN <<pattern[r]>> ELSE Append(Chain[parent[r]], pattern[r])

(* The segment of the query that r looks at: a child the next one, unless   *)
(* there is none, a route of InvertRoute the same one.                      *)
At[r \in Ids] ==
  IF parent[r] = 0 THEN 1
  ELSE IF r \in inverted \/ At[parent[r]] = Len(query.path) THEN At[parent[r]]
  ELSE At[parent[r]] + 1

(* A route that Child returns is one that was made for the path it was      *)
(* asked for, and hangs on what its parent accepts, whatever runs at the    *)
(* same time and whatever was entered over it.                              *)
FoundIsAsked ==
  \A f \in Finders :
    find[f].pc = "done" /\ find[f].at /= 0 =>
      Chain[find[f].at] = <<Root>> \o find[f].path /\ find[f].at \notin inverted

(* When New has returned, Child finds the path, unless that New overlapped  *)
(* with another: two that add the same missing segment both make a route    *)
(* for it, and the second one that is entered hides what was added below    *)
(* the first.                                                               *)
RegisteredIsFound ==
  \A f \in Finders : \A g \in find[f].known :
    find[f].pc = "done" /\ find[f].path = Path[g] => find[f].at /= 0

Matches(path, chain) ==
  /\ Len(path) = Len(chain)
  /\ \A i \in 1 .. Len(path) : Validate(chain[i], path[i])

(* When New has returned, requests for the path reach a route for it, also  *)
(* if New overlapped with another.                                          *)
RegisteredIsServed ==
  query.path /= <<>> /\ pending = {} =>
    \A g \in query.known :
      LET c == <<Root>> \o Path[g] IN
      Matches(query.path, c) => \E r \in received : Chain[r] = c

(* A route that Child has returned, and that handlers are subscribed to by  *)
(* now, gets the requests for it, also if another route is entered over it. *)
FoundIsServed ==
  query.path /= <<>> /\ pending = {} =>
    \A r \in query.found : Matches(query.path, Chain[r]) => r \in received

(* What reaches a route has matched it, and has matched every route above   *)
(* it, or failed to where one is hung on the rejections of another.  The    *)
(* last segment of the path may be matched more than once.                  *)
ReceivedIsMatched ==
  \A r \in received :
    /\ Validate(pattern[r], query.path[At[r]])
    /\ r /= 1 => parent[r] \in (IF r \in inverted THEN rejected ELSE received)
    /\ r \notin rejected
=============================================================================
