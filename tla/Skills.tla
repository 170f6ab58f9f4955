-------------------------------- MODULE Skills --------------------------------
(***************************************************************************)
(* Skills (package skills): the loader that finds them in a directory      *)
(* tree (loader.go), and the Toolset that lists them, reads their files,   *)
(* runs their scripts and filters the tools of the agent (toolset.go).     *)
(*                                                                         *)
(* A path is the sequence of its parts between slashes.  Frontmatter is    *)
(* its name, and whether it can be parsed and validated.                   *)
(***************************************************************************)
EXTENDS Naturals, Sequences, FiniteSets, SequencesExt

CONSTANTS
  Trees,       \* the directory trees considered
  Requests,    \* paths that models ask for
  BaseTools,   \* the tools of the agent
  Leading, Trailing,  \* names with a space at that end, to the names without
  Backslashed, \* names with a backslash, to the parts between backslashes
  Scripts      \* script runs, numbered: a bound

Kinds == {"references", "assets", "scripts"}
CoreTools == {"list_skills", "load_skill", "load_skill_resource", "run_skill_script"}

\* A tree has directories with a SKILL.md, the name and validity each declares, its
\* allowed-tools patterns, each the set of tools that it matches, and other files.
\* It is finite, the parts of a path are names of files and directories, and what
\* is called like a resource directory is a directory.
ASSUME SkillsAssumption ==
  /\ \A t \in Trees :
       /\ t.dirs \subseteq Seq(STRING) /\ t.files \subseteq Seq(STRING) /\ IsFiniteSet(t.dirs)
       /\ \A f \in t.files : \A i \in DOMAIN f : f[i] \notin {"", ".", ".."}
       /\ \A d \in t.dirs, k \in Kinds : Append(d, k) \notin t.files
       /\ t.name \in [t.dirs -> STRING] /\ t.valid \in [t.dirs -> BOOLEAN]
       /\ \A d \in t.dirs : t.allowed[d] \subseteq SUBSET BaseTools
  /\ Requests \subseteq Seq(STRING) \ {<<>>}
  /\ \A n \in Kinds : n \notin DOMAIN Leading \cup DOMAIN Trailing \cup DOMAIN Backslashed

VARIABLES
  tree,
  loading,     \* "no", "failed" or "done"
  skills,      \* roots of the skills of the toolset
  offered,     \* tools the agent offers to the model
  answer,      \* of the last request
  script       \* script runs: where they are, their skill, their file, and the
               \* file whose content is in its place in the workspace

svars == <<tree, loading, skills, offered, answer, script>>

NoAnswer == [code |-> "none", root |-> <<>>, kind |-> "", file |-> <<>>]
NoScript == [pc |-> "none", root |-> <<>>, file |-> <<>>, content |-> <<>>, killed |-> FALSE,
             child |-> FALSE]

SInit ==
  /\ tree \in Trees /\ loading = "no" /\ skills = {} /\ offered = BaseTools
  /\ answer = NoAnswer /\ script = [s \in Scripts |-> NoScript]

-----------------------------------------------------------------------------
(***************************************************************************)
(* The loader.                                                             *)
(***************************************************************************)
OnlyThatDir(dir, roots) == \E r \in roots, k \in Kinds : dir = Append(r, k)  \* with a fault

isNestedInSkillResourceDir(dir, roots) ==
  \E r \in roots, k \in Kinds : IsPrefix(Append(r, k), dir)

\* The directories that are not below a resource directory of a root.  The code
\* takes them in the order of sort.Strings, in which a directory comes before
\* those inside it, so that the roots found earlier decide.
detectSkillRoots(t) ==
  CHOOSE roots \in SUBSET t.dirs :
    roots = {dir \in t.dirs : ~ isNestedInSkillResourceDir(dir, roots)}

\* SKILL.md has a frontmatter that parses and that Validate accepts.
parseSkillMarkdown(t, root) == t.valid[root]

\* validateSkillRootName: the root of the tree may have any name.
RightName(t, root) == root = <<>> \/ t.name[root] = Last(root)

\* loadFS: the files below one of the three directories of a skill.
Resources(t, root, kind) ==
  {rest \in {SubSeq(f, Len(root) + 2, Len(f)) : f \in t.files} :
     rest # <<>> /\ Append(root, kind) \o rest \in t.files}

\* Without any pattern every tool, else those that some pattern matches.
ComposeTools(t, roots) ==
  LET patterns == UNION {t.allowed[r] : r \in roots}
  IN  CoreTools \cup (IF patterns = {} THEN BaseTools ELSE UNION patterns)

\* loadAllFS and NewToolset.
Load ==
  /\ loading = "no"
  /\ LET roots == detectSkillRoots(tree)
     IN  IF /\ roots # {}
            /\ \A r \in roots : parseSkillMarkdown(tree, r) /\ RightName(tree, r)
            /\ \A r, q \in roots : tree.name[r] = tree.name[q] => r = q
         THEN loading' = "done" /\ skills' = roots /\ offered' = ComposeTools(tree, roots)
         ELSE loading' = "failed" /\ UNCHANGED <<skills, offered>>
  /\ UNCHANGED <<tree, answer, script>>

-----------------------------------------------------------------------------
(***************************************************************************)
(* Paths.  A path is trimmed as a whole; backslashes separate parts too.   *)
(***************************************************************************)
TrimLeft(name)  == IF name \in DOMAIN Leading THEN Leading[name] ELSE name
TrimRight(name) == IF name \in DOMAIN Trailing THEN Trailing[name] ELSE name

TrimSpace(p) ==
  [i \in 1 .. Len(p) |->
     LET left == IF i = 1 THEN TrimLeft(p[i]) ELSE p[i]
     IN  IF i = Len(p) THEN TrimRight(left) ELSE left]

\* strings.ReplaceAll of backslashes.
Slashes(p) ==
  IF \A i \in 1 .. Len(p) : p[i] \notin DOMAIN Backslashed THEN p
  ELSE FlattenSeq([i \in 1 .. Len(p) |->
         IF p[i] \in DOMAIN Backslashed THEN Backslashed[p[i]] ELSE <<p[i]>>])

Absolute(p) == Len(p) > 1 /\ p[1] = ""

\* path.Clean of a relative path, part by part.
Clean(p) ==
  LET clean[i \in 0 .. Len(p)] ==
        CASE i = 0 -> <<>>
          [] i > 0 /\ p[i] \in {"", "."} -> clean[i - 1]
          [] i > 0 /\ p[i] = ".." /\ clean[i - 1] # <<>> /\ Last(clean[i - 1]) # ".." -> Front(clean[i - 1])
          [] OTHER -> Append(clean[i - 1], p[i])
  IN  clean[Len(p)]

\* The clean path, or <<>> if the path is not one below the directory.  The part
\* "c:" stands for a name that begins like a Windows volume.
normalizeSkillRelativePath(p) ==
  LET rel   == Slashes(TrimSpace(p))
      clean == Clean(rel)
  IN  IF Absolute(rel) \/ clean = <<>> \/ Head(clean) \in {"..", "c:"} THEN <<>> ELSE clean

normalizeResourcePath(p) ==
  LET path == Slashes(TrimSpace(p))
  IN  IF Len(path) > 1 /\ path[1] \in Kinds
      THEN [kind |-> path[1], name |-> normalizeSkillRelativePath(Tail(path))]
      ELSE [kind |-> "", name |-> <<>>]

\* The leading scripts/ may be left out.
normalizeScriptPath(p) ==
  LET path == Slashes(TrimSpace(p))
  IN  normalizeSkillRelativePath(IF Len(path) > 1 /\ path[1] = "scripts" THEN Tail(path) ELSE path)

-----------------------------------------------------------------------------
(***************************************************************************)
(* The tools.  A model names a skill that is there, or another one.        *)
(***************************************************************************)
Answer(code, root, kind, file) == [code |-> code, root |-> root, kind |-> kind, file |-> file]

\* load_skill and list_skills do not look at files.
LoadSkill(root) ==
  /\ loading = "done" /\ answer = NoAnswer
  /\ answer' = Answer(IF root \in skills THEN "instructions" ELSE "SKILL_NOT_FOUND", root, "", <<>>)
  /\ UNCHANGED <<tree, loading, skills, offered, script>>

LoadSkillResource(root, p) ==
  /\ loading = "done" /\ answer = NoAnswer
  /\ LET res == normalizeResourcePath(p)
     IN  answer' =
           CASE p = <<"">> -> Answer("MISSING_RESOURCE_PATH", root, "", <<>>)
             [] p # <<"">> /\ root \notin skills -> Answer("SKILL_NOT_FOUND", root, "", <<>>)
             [] p # <<"">> /\ root \in skills /\ res.name = <<>> ->
                  Answer("INVALID_RESOURCE_PATH", root, "", <<>>)
             [] OTHER -> Answer(IF res.name \in Resources(tree, root, res.kind)
                                THEN "content" ELSE "RESOURCE_NOT_FOUND",
                                root, res.kind, res.name)
  /\ UNCHANGED <<tree, loading, skills, offered, script>>

\* run_skill_script up to its workspace; timeout is whether timeout_seconds is
\* in range, env whether the variables are acceptable.
RunSkillScript(s, root, p, timeout, env) ==
  /\ loading = "done" /\ answer = NoAnswer /\ script[s].pc = "none"
  /\ LET name == normalizeScriptPath(p)
         refusal == CASE p = <<"">> -> "MISSING_SCRIPT_PATH"
                      [] p # <<"">> /\ root \notin skills -> "SKILL_NOT_FOUND"
                      [] p # <<"">> /\ root \in skills /\ name = <<>> -> "INVALID_SCRIPT_PATH"
                      [] name # <<>> /\ root \in skills /\ name \notin Resources(tree, root, "scripts") ->
                           "SCRIPT_NOT_FOUND"
                      [] OTHER -> IF ~ timeout THEN "INVALID_TIMEOUT"
                                  ELSE IF ~ env THEN "INVALID_ENV" ELSE "none"
     IN  IF refusal # "none"
         THEN answer' = Answer(refusal, root, "scripts", name) /\ UNCHANGED script
         ELSE /\ script' = [script EXCEPT ![s] = [NoScript EXCEPT !.pc = "prepare", !.root = root,
                                                                 !.file = name]]
              /\ UNCHANGED answer
  /\ UNCHANGED <<tree, loading, skills, offered>>

\* os.MkdirTemp and materializeSkillWorkspace: each run has a directory of its
\* own, into which the files of the skill are written under their normalised paths,
\* in no order: of two with the same one either stays.  A failure removes it.
Materialize(s) ==
  LET files(kind) == Resources(tree, script[s].root, kind)
      written == {f \in files("scripts") : normalizeSkillRelativePath(f) = script[s].file}
  IN  /\ script[s].pc = "prepare"
      /\ \/ /\ \A k \in Kinds : \A f \in files(k) : normalizeSkillRelativePath(f) # <<>>
            /\ \E content \in IF written = {} THEN {<<>>} ELSE written :
                 script' = [script EXCEPT ![s].pc = "running", ![s].content = content]
            /\ UNCHANGED answer
         \/ /\ script' = [script EXCEPT ![s] = NoScript]
            /\ answer' = Answer("WORKSPACE_ERROR", script[s].root, "scripts", script[s].file)
      /\ UNCHANGED <<tree, loading, skills, offered>>

\* The script leaves a child that keeps its output open.
Forks(s) ==
  /\ script[s].pc = "running" /\ ~ script[s].killed /\ ~ script[s].child
  /\ script' = [script EXCEPT ![s].child = TRUE]
  /\ UNCHANGED <<tree, loading, skills, offered, answer>>

\* The deadline, or the end of the caller's context: only the script is killed.
Kills(s) ==
  /\ script[s].pc = "running" /\ ~ script[s].killed
  /\ script' = [script EXCEPT ![s].killed = TRUE]
  /\ UNCHANGED <<tree, loading, skills, offered, answer>>

\* cmd.Run returns when the script has ended and its output is closed: with
\* exit code 0, another one, or without having started; the deadline may pass
\* between the end of a script and the look at the context.  A script that is not
\* in its place does not succeed.
Finishes(s) ==
  /\ script[s].pc = "running" /\ ~ script[s].child
  /\ \E status \in IF script[s].killed THEN {"timeout", "error"}
                   ELSE {"success", "error", "timeout", "EXECUTION_ERROR"} :
       /\ status = "success" => script[s].content # <<>>
       /\ answer' = Answer(status, script[s].root, "scripts", script[s].content)
  /\ script' = [script EXCEPT ![s] = NoScript]
  /\ UNCHANGED <<tree, loading, skills, offered>>

ChildEnds(s) ==
  /\ script[s].child
  /\ script' = [script EXCEPT ![s].child = FALSE]
  /\ UNCHANGED <<tree, loading, skills, offered, answer>>

\* The model has read the answer.
Reads ==
  /\ answer # NoAnswer /\ answer' = NoAnswer
  /\ UNCHANGED <<tree, loading, skills, offered, script>>

SNext ==
  \/ Load \/ Reads
  \/ \E root \in tree.dirs : LoadSkill(root)
  \/ \E root \in tree.dirs, p \in Requests : LoadSkillResource(root, p)
  \/ \E s \in Scripts :
       \/ \E root \in tree.dirs, p \in Requests, timeout, env \in BOOLEAN :
            RunSkillScript(s, root, p, timeout, env)
       \/ Materialize(s) \/ Forks(s) \/ Kills(s) \/ Finishes(s) \/ ChildEnds(s)

SSpec == SInit /\ [][SNext]_svars

-----------------------------------------------------------------------------
\* A name that the tools leave alone: without a space at its ends, a backslash or
\* what looks like a Windows volume.
Plain(f) ==
  /\ f[1] \notin DOMAIN Leading \cup {"c:"} /\ f[Len(f)] \notin DOMAIN Trailing
  /\ \A i \in 1 .. Len(f) : f[i] \notin DOMAIN Backslashed

PlainScripts(t, root) == \A f \in Resources(t, root, "scripts") : Plain(f)

\* The files of a skill are its own: no file is a resource of two skills, also
\* when skills are nested or a resource directory holds something that looks
\* like a skill; what load_skill_resource returns, and the script that ran, is
\* a file of the tree in the directory that was named, below the skill that was
\* named.  Every such file whose name is plain is found under its own path, by
\* both tools; where all scripts of a skill have plain names, what runs is the
\* script that was named.  (Other names are loaded, but what is asked for is
\* another path: two such scripts may share a place in the workspace.)
FilesOwned ==
  /\ \A r, q \in skills : \A k, l \in Kinds :
       \A f \in Resources(tree, r, k), g \in Resources(tree, q, l) :
         Append(r, k) \o f = Append(q, l) \o g => r = q
  /\ answer.code \in {"content", "success"} =>
       Append(answer.root, answer.kind) \o answer.file \in tree.files
  /\ \A r \in skills, k \in Kinds : \A f \in Resources(tree, r, k) : Plain(f) =>
       /\ normalizeResourcePath(<<k>> \o f) = [kind |-> k, name |-> f]
       /\ k = "scripts" => normalizeScriptPath(<<k>> \o f) = f
  /\ \A s \in Scripts :
       script[s].pc = "running" /\ PlainScripts(tree, script[s].root) => script[s].content = script[s].file
===============================================================================
