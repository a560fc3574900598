-------------------------- MODULE MCClassCatalog --------------------------
(* Small instances of ClassCatalog: the classes there are, and the calls.   *)
EXTENDS ClassCatalog, TLC

CONSTANTS c1, c2, c3, k1, k2, p1, p2

Plain == [package |-> FALSE, children |-> {}, parents |-> {}, course |-> None, full |-> FALSE,
          ended |-> FALSE, ally |-> None]
Package(children)    == [Plain EXCEPT !.package = TRUE, !.children = children]
Within(parents)      == [Plain EXCEPT !.parents = parents]
Teaching(course)     == [Plain EXCEPT !.course = course]
Rows(r1, r2, r3)     == (c1 :> r1) @@ (c2 :> r2) @@ (c3 :> r3)

Asks(ops, by, classes, others, courses, packages) ==
  [op: ops, by: {by}, class: classes, other: others, course: courses, clears: {FALSE},
   package: packages, data: {{}}]

\* The same calls with other platform data, and with a course that is taken away.
Naming(calls, datas) == {[r EXCEPT !.data = d] : r \in calls, d \in datas}
Clearing(calls)      == {[r EXCEPT !.clears = TRUE] : r \in calls}

Scene1(r1, r2, r3, calls, fails) == [rows |-> Rows(r1, r2, r3), calls |-> calls, fails |-> fails]

\* Two packages and a class of one of them, which is moved between them.
Family == Scene1(Package({c3}), Package({}), Within({c1}),
                 Asks({"sub", "unsub"}, "system", {c1, c2}, {c3}, {None}, {FALSE}), FALSE)

\* The package loses its classes, or one of the two is deleted.
Broken == Scene1(Package({c3}), None, Within({c1}),
                 Asks({"sub", "unsub"}, "system", {c1}, {c3}, {None}, {FALSE})
                   \union Asks({"change"}, "teacher", {c1}, {c1}, {None}, {FALSE})
                   \union Asks({"delete"}, "assistant", {c1, c3}, {c1}, {None}, {FALSE}), TRUE)

\* Packages that are put below each other.
Nested == Scene1(Package({}), Package({}), None,
                 Asks({"sub"}, "system", {c1}, {c1, c2}, {None}, {FALSE})
                   \union Asks({"sub"}, "system", {c2}, {c1}, {None}, {FALSE})
                   \union Asks({"children"}, "assistant", {c1}, {c1}, {None}, {FALSE}), FALSE)

\* What is read: a package with a class.
Browse == Scene1(Package({c2}), Within({c1}), None,
                 Asks({"children", "publish"}, "assistant", {c1}, {c1}, {None}, {FALSE})
                   \union Asks({"list", "locate"}, "user", {c1}, {c1}, {None}, {FALSE})
                   \union Asks({"change", "end"}, "assistant", {c1}, {c1}, {None}, {FALSE})
                   \union Asks({"ally"}, "assistant", {c1}, {c1, c2}, {None}, {FALSE}), FALSE)

\* A class that has a course, one that has none, and room for another.
Teach == Scene1(Teaching(k1), Plain, None,
                Asks({"add"}, "assistant", {c1}, {c1}, {k1}, {FALSE})
                \union Asks({"change"}, "system", {c2}, {c1}, {k1}, {FALSE})
                \union Clearing(Asks({"change"}, "system", {c1}, {c1}, {None}, {FALSE}))
                \union Asks({"find"}, "system", {c1}, {c1}, {k1}, {FALSE})
                \union Asks({"delete"}, "assistant", {c1}, {c1}, {None}, {FALSE}), TRUE)

\* Courses change hands.
Swap == Scene1(Teaching(k1), Teaching(k2), None,
               Asks({"change"}, "system", {c1, c2}, {c1}, {k1, k2}, {FALSE})
               \union Asks({"locate"}, "user", {c1}, {c1}, {k1}, {FALSE}), TRUE)

\* A class with meetings is copied, another one imported; one is added.
Copies == Scene1([Plain EXCEPT !.full = TRUE], None, None,
                 Asks({"clone", "import"}, "assistant", {c1}, {c1}, {None}, {FALSE})
                   \union Naming(Asks({"clone"}, "assistant", {c1}, {c1}, {None}, {FALSE}), {{c1}})
                   \union Asks({"add"}, "assistant", {c1}, {c1}, {None}, {TRUE})
                   \union Asks({"delete"}, "assistant", {c2}, {c1}, {None}, {FALSE}), TRUE)

\* Packages that are created or changed with classes in their data: one that there is,
\* the package itself, and one that there is not yet.
Named == Scene1(Package({c2}), Within({c1}), None,
                Naming(Asks({"add"}, "assistant", {c1}, {c1}, {None}, {TRUE}), {{c1, c2, c3}})
                \union Naming(Asks({"change"}, "teacher", {c1}, {c1}, {None}, {TRUE, None}), {{c3}})
                \union Asks({"sub", "unsub"}, "system", {c1}, {c2}, {None}, {FALSE}), FALSE)

\* Data that puts two packages below each other.
Ringed == Scene1(Package({}), Package({}), None,
                 Asks({"sub"}, "system", {c1}, {c2}, {None}, {FALSE})
                   \union Asks({"sub"}, "system", {c2}, {c1}, {None}, {FALSE})
                   \union Naming(Asks({"change"}, "teacher", {c1}, {c1}, {None}, {TRUE}), {{c2}})
                   \union Naming(Asks({"change"}, "teacher", {c2}, {c1}, {None}, {TRUE}), {{c1}}), FALSE)

Catalogs  == [family |-> Family, broken |-> Broken, nested |-> Nested, browse |-> Browse,
              teach |-> Teach, swap |-> Swap, copies |-> Copies, named |-> Named, ringed |-> Ringed]
Symmetric == Permutations(Procs)
=============================================================================
