--------------------------- MODULE JobEnvironment ---------------------------
(***************************************************************************)
(* What a service job is given in place of an environment of its own: the  *)
(* PATH that internal/servicedef/path.go resolves when the service is      *)
(* installed, and the bot token that internal/config/config.go resolves    *)
(* then, and again when the job starts.  An entry of a PATH is a directory *)
(* and the way it is written.                                              *)
(***************************************************************************)
EXTENDS Naturals, SequencesExt

CONSTANTS
    None,
    Directories,    \* what an entry may name, there or not
    Existing,       \* the directories that are there
    HomeDir,        \* what a leading "~" stands for
    Base,           \* BasePathEntries, a sequence of directories
    MinEntries      \* minPathEntries

Written == {"clean", "slash", "tilde", "nested", "relative"}

Entries == [dir : Directories, written : Written]

ASSUME PathAssumption ==
    /\ HomeDir \in Directories
    /\ Base \in Seq(Directories)

Entry(d, w) == [dir |-> d, written |-> w]
Clean(d) == Entry(d, "clean")

-----------------------------------------------------------------------------
(* ResolvePath                                                              *)

\* filepath.Clean, after a leading "~" has been expanded.
Cleaned(e) ==
    CASE e.written = "tilde"    -> Clean(HomeDir)
      [] e.written = "relative" -> e
      [] OTHER                  -> Clean(e.dir)

\* A "~" inside an entry is nothing a shell expands, and an entry that names
\* no directory is dead; a relative one cannot be looked up here and is kept.
Usable(e) ==
    /\ e.written # "nested"
    /\ e.written # "relative" => Cleaned(e).dir \in Existing

cleanEntries(entries) ==
    FoldLeft(LAMBDA out, e : IF Usable(e) THEN Append(out, Cleaned(e)) ELSE out,
             <<>>, entries)

BasePath == [i \in DOMAIN Base |-> Clean(Base[i])]

adequatePath(entries) ==
    /\ Len(entries) >= MinEntries
    /\ ToSet(BasePath) \subseteq ToSet(entries)

\* A plausible error: the last of what is repeated is kept.
dedupeLast(entries) ==
    FoldLeft(LAMBDA out, e : Append(SelectSeq(out, LAMBDA o : o # e), e),
             <<>>, entries)

\* The first of what is repeated is kept.
dedupe(entries) ==
    FoldLeft(LAMBDA out, e : IF e \in ToSet(out) THEN out ELSE Append(out, e),
             <<>>, entries)

Chosen(inherited, login) ==
    CASE adequatePath(inherited) -> inherited
      [] ~adequatePath(inherited) /\ adequatePath(login) -> login
      [] OTHER -> inherited \o login

ResolvePath(inherited, login) ==
    dedupe(Chosen(cleanEntries(inherited), cleanEntries(login)) \o BasePath)

\* What the operator of an installed job may rely on (path.go, ResolvePath):
\* a shell's base directories and no directory twice; of a capture that is
\* used, every usable entry, in its order; and of two captures both only when
\* neither will do alone, so that the report names where the PATH is from.
First(s, e) == CHOOSE i \in DOMAIN s :
                  s[i] = e /\ \A j \in DOMAIN s : s[j] = e => i <= j

InOrder(part, whole) ==
    \A d, e \in ToSet(part) :
        First(part, d) < First(part, e) => First(whole, d) < First(whole, e)

SoundPath(path, inherited, login) ==
    LET inh == cleanEntries(inherited)
        log == cleanEntries(login)
        Uses(part) == ToSet(path) = ToSet(part) \cup ToSet(BasePath)
                      /\ InOrder(part, path)
    IN  /\ IsInjective(path)
        /\ IF adequatePath(inh) THEN Uses(inh)
           ELSE IF adequatePath(log) THEN Uses(log)
           ELSE Uses(inh \o log)

-----------------------------------------------------------------------------
(* Load, loadDotEnv and resolveToken                                        *)

\* A configuration has a literal token or refers to the environment, and a .env
\* file may be beside it; one that is not there has neither.
ConfigFiles(Tokens) == [literal : Tokens \cup {None}, dotenv : Tokens \cup {None}]

\* The environment is the caller's. A command reads the configuration it is
\* given by --config, or the default one.
TokenInput(Tokens) ==
    [env : Tokens \cup {None}, config : ConfigFiles(Tokens),
     default : ConfigFiles(Tokens)]

\* loadDotEnv sets what is not set.
EnvAfter(in) == IF in.env = None THEN in.config.dotenv ELSE in.env

\* A plausible error: a .env file is named as the source even when the
\* environment has gone before it.
resolveDotEnvFirst(in) ==
    IF in.config.literal # None
    THEN [token |-> in.config.literal, source |-> "config.yaml"]
    ELSE [token  |-> EnvAfter(in),
          source |-> IF EnvAfter(in) = None THEN ""
                     ELSE IF in.config.dotenv # None THEN ".env"
                     ELSE "environment"]

resolveToken(in) ==
    IF in.config.literal # None
    THEN [token |-> in.config.literal, source |-> "config.yaml"]
    ELSE [token  |-> EnvAfter(in),
          source |-> IF EnvAfter(in) = None THEN ""
                     ELSE IF in.env # None THEN "environment"
                     ELSE ".env"]

\* A job starts with no token in its environment, and is given no --config
\* (servicedef.New: its only argument is "start").
UnderService(in) == [in EXCEPT !.env = None, !.config = in.default]

SilentSources == {"config.yaml", ".env"}    \* install gives no warning
FoundAgain(in) ==
    /\ resolveToken(UnderService(in)).token # None
    /\ resolveToken(UnderService(in)).token = resolveToken(in).token

\* "Two of the three places work" (docs/service.md, "Bot token"): the token of
\* an install that gives no warning is the one the job will find, when the
\* installer has read what the default configuration and its .env file say.
PortableToken(in, source) ==
    in.config = in.default /\ source \in SilentSources => FoundAgain(in)
=============================================================================
