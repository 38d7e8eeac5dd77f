-------------------------- MODULE MCBuildFrontend --------------------------
(***************************************************************************)
(* Small build contexts for BuildFrontend: a Dockerfile in the root of the *)
(* context, a file that is found under its own name or with the extension, *)
(* a name that is also that of a directory, an environment file.           *)
(***************************************************************************)
EXTENDS BuildFrontend

Paths == {"Dockerfile", "Dockerfile.dockerfile", "a", "a.dockerfile", "a.dockerfile/c.dockerfile",
          "d", "d.dockerfile", "d/b", "d/b.dockerfile",
          "e", "e.env", "e.dockerfile", "e.env.dockerfile"}

AddDockerfile ==
    [p \in Paths |->
        CASE p = "Dockerfile" -> "Dockerfile.dockerfile"
          [] p = "a" -> "a.dockerfile" [] p = "d" -> "d.dockerfile"
          [] p = "d/b" -> "d/b.dockerfile" [] p = "e" -> "e.dockerfile"
          [] p = "e.env" -> "e.env.dockerfile" [] OTHER -> p]

AddEnv == [p \in Paths |-> IF p = "e" THEN "e.env" ELSE p]

Directories ==
    [p \in Paths |->
        CASE p \in {"d/b", "d/b.dockerfile"} -> {"d"}
          [] p = "a.dockerfile/c.dockerfile" -> {"a.dockerfile"} [] OTHER -> {}]

File(p) == [to |-> p, env |-> FALSE]
Env(p)  == [to |-> p, env |-> TRUE]
Away    == File("elsewhere")

OneRef  == {File("a"), File("d"), File("d/b"), Env("e"), Env("e.env"), Away}
UpToTwo == {<<>>} \cup {<<r>> : r \in OneRef} \cup {<<r, s>> : r, s \in OneRef}

Of(p, refs) == [of |-> p, refs |-> refs]
Nothing == Of("nobody", <<>>)

Files(dockerfile, a, ax, dx, db, ee, ex) ==
    [p \in Paths |->
        CASE p = "Dockerfile" -> dockerfile [] p = "a" -> a [] p = "a.dockerfile" -> ax
          [] p = "d.dockerfile" -> dx [] p = "d/b" -> db [] p = "e.env" -> ex
          [] p = "e" -> ee [] OTHER -> Absent]

Leaf(p) == Of(p, <<>>)
Maybe(p) == {Absent, Leaf(p)}

\* The main Dockerfile refers to files of other names; a file nothing leads to
\* is left out.
PlainBuilds ==
    {[files |-> Files(Of("Dockerfile", refs), a, ax, dx, db, ee, ex), main |-> Of("Dockerfile", refs)] :
        refs \in {r \in UpToTwo : Len(r) = 2 => r[1] # r[2]},
        a \in Maybe("a"),
        ax \in {Absent} \cup {Of("a.dockerfile", r) : r \in {<<>>, <<File("d/b")>>, <<File("a")>>}},
        dx \in Maybe("d.dockerfile"),
        db \in Maybe("d/b") \cup {Of("d/b", <<File("a")>>)},
        ee \in Maybe("e"),
        ex \in Maybe("e.env")}

Refers(b, names) == \E i \in DOMAIN b.main.refs : b.main.refs[i].to \in names
Lean(b) ==
    /\ b.files["a"] # Absent \/ b.files["a.dockerfile"] # Absent => Refers(b, {"a", "d/b"})
    /\ b.files["d.dockerfile"] # Absent => Refers(b, {"d"})
    /\ b.files["d/b"] # Absent => Refers(b, {"a", "d", "d/b"})
    /\ b.files["e"] # Absent \/ b.files["e.env"] # Absent => Refers(b, {"e", "e.env"})
LeanBuilds == {b \in PlainBuilds : Lean(b)}

\* Only the extension of a Dockerfile is tried for an environment file: what is
\* found is not what the command looks for.
EnvBuilds ==
    {[files |-> [Files(main, Absent, Absent, Absent, Absent, Absent, ex)
                    EXCEPT !["e.dockerfile"] = Leaf("e.dockerfile")],
      main |-> main] :
        main \in {Of("Dockerfile", r) : r \in {<<Env("e")>>, <<Away, Env("e")>>}},
        ex \in Maybe("e.env")}

\* The main Dockerfile lies elsewhere and refers to another Dockerfile.  Files
\* nest three levels deep, one more than may be, unless the nested transform
\* counts anew.
NestedBuilds ==
    {[files |-> Files(dockerfile, Absent, ax, Absent, db, Absent, Absent), main |-> Of("x/Dockerfile", refs)] :
        refs \in {<<File("Dockerfile")>>, <<File("a"), File("Dockerfile")>>,
                  <<File("Dockerfile"), File("Dockerfile")>>},
        dockerfile \in {Absent} \cup
            {Of("Dockerfile", r) : r \in {<<>>, <<File("a")>>, <<File("d/b"), File("a")>>, <<Away>>}},
        ax \in Maybe("a.dockerfile"),
        db \in Maybe("d/b") \cup {Of("d/b", <<File("a")>>)}}

\* A file is asked for by its full name, and another has the name without the
\* extension.
TwinBuilds ==
    {[files |-> Files(Of("Dockerfile", refs), a, ax, Absent, Absent, Absent, Absent),
      main |-> Of("Dockerfile", refs)] :
        refs \in {<<File("a.dockerfile")>>, <<File("a.dockerfile"), File("a")>>,
                  <<File("a"), File("a.dockerfile")>>},
        a \in Maybe("a") \cup {Of("a", <<File("d/b")>>)},
        ax \in {Absent} \cup {Of("a.dockerfile", r) : r \in {<<>>, <<File("a")>>}}}

\* A file is there under its own name and with the extension: where the first
\* cannot be read, the second is taken for it.
UnreadBuilds ==
    {[files |-> Files(Of("Dockerfile", refs), a, ax, Absent, db, Absent, Absent),
      main |-> Of("Dockerfile", refs)] :
        refs \in {<<File("a")>>, <<File("a"), File("d/b")>>},
        a \in {Of("a", r) : r \in {<<>>, <<File("a")>>, <<File("d/b")>>}},
        ax \in {Of("a.dockerfile", r) : r \in {<<>>, <<File("a")>>, <<File("d/b")>>}},
        db \in Maybe("d/b")}
    \cup
    {[files |-> [Files(Of("Dockerfile", <<File("e")>>), Absent, Absent, Absent, Absent, e, Absent)
                    EXCEPT !["e.dockerfile"] = Leaf("e.dockerfile")],
      main |-> Of("x/Dockerfile", <<File("Dockerfile"), Env("e")>>)] :
        e \in {Of("e", r) : r \in {<<>>, <<File("a")>>}}}

\* A directory has the name of a file with the extension, and so the command
\* takes it for that file as long as the file is not there.
DirectoryTwinBuilds ==
    {[files |-> [Files(Of("Dockerfile", refs), a, Absent, Absent, Absent, Absent, Absent)
                    EXCEPT !["a.dockerfile/c.dockerfile"] = Leaf("a.dockerfile/c.dockerfile")],
      main |-> Of("Dockerfile", refs)] :
        refs \in {<<r, s>> : r, s \in {File("a"), File("a.dockerfile/c.dockerfile")}},
        a \in Maybe("a")}

\* The main Dockerfile is an environment file too.
EnvMainBuilds ==
    {[files |-> Files(Of("Dockerfile", refs), Absent, Absent, Absent, Absent, Absent, Absent),
      main |-> Of("x/Dockerfile", <<Env("Dockerfile")>>)] :
        refs \in {<<>>, <<File("a")>>}}

\* The main Dockerfile refers to itself through another file.
SelfBuilds ==
    LET main == Of("Dockerfile", <<File("a")>>)
    IN  {[files |-> Files(main, Absent, Of("a.dockerfile", <<File("Dockerfile")>>),
                          Absent, Absent, Absent, Absent),
          main |-> main]}

TextsOf(builds) ==
    UNION {{b.main} \cup {b.files[p] : p \in Paths} : b \in builds} \ {Absent}

PassingBuilds ==
    LeanBuilds \cup EnvBuilds \cup NestedBuilds \cup TwinBuilds \cup UnreadBuilds
        \cup DirectoryTwinBuilds \cup EnvMainBuilds
PassingTexts == TextsOf(PassingBuilds)
NestedTexts == TextsOf(NestedBuilds)
SelfTexts == TextsOf(SelfBuilds)
PlainTexts == TextsOf(LeanBuilds)

=============================================================================
