---------------------------- MODULE MCRestRequest ----------------------------
(***************************************************************************)
(* One request of any kind; two of one client; one with any body beside a  *)
(* writer of the firmware table; three writers of one row, a PUT among     *)
(* them; and two writers beside the refresh of the timer, which adds one   *)
(* image, or one writer and a second refresh.                              *)
(***************************************************************************)
EXTENDS RestRequest

CONSTANTS r1, r2, r3, image, entry, listed, refresher

ThreeRequests == {r1, r2, r3}

Plain ==
  [server |-> "external", target |-> "firmware", subject |-> image, method |-> "PUT",
   body |-> "full", user |-> "admin", query |-> "none"]
With(targets, subjects, methods, bodies, users, queries) ==
  [server : Servers, target : targets, subject : subjects, method : methods,
   body : bodies, user : users, query : queries]

(* Every way to every handler; every credential before every change; every *)
(* body of every change that has one; every query of every reader.         *)
Routed == With(Targets \cup {"unknown", "unparsable"}, {image, None}, Methods, {"full"}, {"admin"}, {"none"})
Credentials ==
  With({"firmware"}, {image}, {"POST", "DELETE"}, {"full"}, Users, {"none"})
  \cup With({"firmwares", "systemConfiguration"}, {image}, {"PUT"}, {"none"}, Users, {"update"})
  \cup With({"system"}, {None}, {"POST"}, {"full"}, Users, {"none"})
  \cup With({"revisionHistory"}, {entry}, {"DELETE"}, {"none"}, Users, {"none"})
Contents ==
  With({"firmware"}, {image}, {"POST", "PUT"}, Bodies, {"root"}, {"none"})
  \cup With({"system"}, {None}, {"POST"}, Bodies, {"root"}, {"none"})
Questions == With(Targets, {image}, {"GET"}, {"none"}, {"root"}, Queries)

Writer(method) == [Plain EXCEPT !.method = method]
Writers == {Writer("POST"), Writer("PUT"), Writer("DELETE")}

Alone(asks) == {[r \in {r1} |-> q] : q \in asks}
Twice(asks) == {[r \in {r1, r2} |-> q] : q \in asks}
Beside(asks, writers) ==
  {[r \in {r1, r2} |-> IF r = r1 THEN q ELSE w] : q \in asks, w \in writers}

Due(n, asks) == [ask : asks, due : {n}]
BoundedScenarios ==
  Due(0, Alone(Routed \cup Questions) \cup Twice(Credentials) \cup Beside(Contents, Writers))
  \cup Due(0, Beside({q \in Questions : q.target = "firmwares"}, {Writer("DELETE")}))
  \cup Due(0, {f \in [ThreeRequests -> Writers] : f[r1].method = "PUT"})
  \cup Due(1, Beside({Writer("POST"), Writer("PUT")}, {Writer("POST"), Writer("DELETE")}))
  \cup Due(1, Twice({Writer("PUT")}) \cup Alone(Credentials))
  \cup Due(2, Alone(Writers))
==============================================================================
