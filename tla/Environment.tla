----------------------------- MODULE Environment -----------------------------
(***************************************************************************)
(* The environment of src/src/posix9_misc.c: a table of pointers into      *)
(* storage that is filled from the front and never given back.             *)
(*                                                                         *)
(* A string "name=value" is a name, a value and the place where it starts. *)
(* It takes what Size says, the "=" and the 0 at its end included.  Names  *)
(* are legal (not empty, without "=", and shorter than putenv's buffer).   *)
(***************************************************************************)
EXTENDS Integers, Sequences, SequencesExt

CONSTANTS EnvNames, EnvValues,
          default_env,     \* a sequence of names and values
          MaxEnvVars,      \* MAX_ENV_VARS
          MaxEnvSize,      \* MAX_ENV_SIZE
          Size(_, _)       \* totallen of a name and a value

String == [name : EnvNames, value : EnvValues]

SizeOf(string) == Size(string.name, string.value)

\* Where init_environment writes each default; the last place is the first that is free.
DefaultAt[i \in 1 .. Len(default_env) + 1] ==
  IF i = 1 THEN 0 ELSE DefaultAt[i - 1] + SizeOf(default_env[i - 1])

\* The defaults have names of their own, and fit.
ASSUME EnvironmentAssumption ==
  /\ MaxEnvVars \in Nat /\ MaxEnvSize \in Nat
  /\ \A string \in String : SizeOf(string) \in Nat \ {0}
  /\ default_env \in Seq(String)
  /\ \A i, j \in 1 .. Len(default_env) : default_env[i].name = default_env[j].name => i = j
  /\ Len(default_env) < MaxEnvVars
  /\ DefaultAt[Len(default_env) + 1] < MaxEnvSize

VARIABLES env_vars,         \* where the strings are, up to the NULL
          env_storage,      \* from each place where a string was written, the string
          env_used,
          env_initialized,
          held              \* what getenv returned last: a place, and the string found there

environment == <<env_vars, env_storage, env_used, env_initialized, held>>

EnvInit == /\ env_vars = <<>> /\ env_storage = <<>> /\ env_used = 0
           /\ env_initialized = FALSE
           /\ held = {}

-----------------------------------------------------------------------------
(* The table that a call goes on with, after init_environment *)

init_environment ==
  IF env_initialized
    THEN [vars |-> env_vars, storage |-> env_storage, used |-> env_used]
    ELSE LET n == Len(default_env) IN
           [vars |-> [i \in 1 .. n |-> DefaultAt[i]],
            storage |-> [at \in {DefaultAt[i] : i \in 1 .. n} |->
                           default_env[CHOOSE i \in 1 .. n : DefaultAt[i] = at]],
            used |-> DefaultAt[n + 1]]

Becomes(env) == /\ env_vars' = env.vars
                /\ env_storage' = env.storage
                /\ env_used' = env.used
                /\ env_initialized' = TRUE

\* The first string of this name, 0 if there is none.
Found(env, name) == SelectInSeq(env.vars, LAMBDA at : env.storage[at].name = name)

\* newvar: the string is written at the end of what is used, and index i points to it.
Written(env, i, string) ==
  [vars |-> IF i \in DOMAIN env.vars THEN [env.vars EXCEPT ![i] = env.used]
                                     ELSE Append(env.vars, env.used),
   storage |-> [at \in DOMAIN env.storage \cup {env.used} |->
                  IF at = env.used THEN string ELSE env.storage[at]],
   used |-> env.used + SizeOf(string)]

-----------------------------------------------------------------------------
(* The calls *)

getenv(name) ==
  LET env == init_environment
      i == Found(env, name)
  IN /\ Becomes(env)
     /\ held' = IF i = 0 THEN held
                ELSE {[at |-> env.vars[i], string |-> env.storage[env.vars[i]]]}

\* Neither limit is met; the first is for a new name alone.
HasRoom(env, i, string) ==
  /\ i = 0 => Len(env.vars) < MaxEnvVars - 1
  /\ env.used + SizeOf(string) < MaxEnvSize

\* A mutant of setenv below: a string that is there is written over where it stands.
setenvInPlace(string, overwrite) ==
  LET env == init_environment
      i == Found(env, string.name)
  IN /\ IF (i # 0 /\ ~overwrite) \/ ~HasRoom(env, i, string) THEN Becomes(env)
        ELSE IF i = 0 THEN Becomes(Written(env, Len(env.vars) + 1, string))
        ELSE Becomes([env EXCEPT !.storage[env.vars[i]] = string])
     /\ UNCHANGED held

\* A call that fails, or finds the name and is not to overwrite it, has come to
\* init_environment.
setenv(string, overwrite) ==
  LET env == init_environment
      i == Found(env, string.name)
  IN /\ IF (i # 0 /\ ~overwrite) \/ ~HasRoom(env, i, string) THEN Becomes(env)
        ELSE Becomes(Written(env, IF i = 0 THEN Len(env.vars) + 1 ELSE i, string))
     /\ UNCHANGED held

putenv(string) == setenv(string, TRUE)

\* A mutant of unsetenv below: the strings after it are not shifted down.
unsetenvCut(name) ==
  LET env == init_environment
      i == Found(env, name)
  IN /\ Becomes(IF i = 0 THEN env ELSE [env EXCEPT !.vars = SubSeq(@, 1, i - 1)])
     /\ UNCHANGED held

\* What the string took stays used.
unsetenv(name) ==
  LET env == init_environment
      i == Found(env, name)
  IN /\ Becomes(IF i = 0 THEN env ELSE [env EXCEPT !.vars = RemoveAt(@, i)])
     /\ UNCHANGED held

EnvNext == \/ \E name \in EnvNames : getenv(name) \/ unsetenv(name)
           \/ \E string \in String : putenv(string) \/ setenv(string, FALSE)

EnvSpec == EnvInit /\ [][EnvNext]_environment

-----------------------------------------------------------------------------
(* Properties *)

\* The table keeps its NULL, and the storage its size.
EnvTypeOK == /\ env_storage \in [DOMAIN env_storage -> String]
             /\ env_vars \in Seq(DOMAIN env_storage) /\ Len(env_vars) < MaxEnvVars
             /\ \A at \in DOMAIN env_storage :
                  at \in Nat /\ at + SizeOf(env_storage[at]) <= env_used
             /\ env_used \in 0 .. MaxEnvSize - 1
             /\ env_initialized \in BOOLEAN
             /\ \A h \in held : h.at \in Nat /\ h.string \in String

\* What getenv has returned keeps what it said, through every later setenv, putenv and unsetenv
\* of this name and of others: no string is written over it, or into it.
HeldStays ==
  \A h \in held :
    /\ h.at \in DOMAIN env_storage /\ env_storage[h.at] = h.string
    /\ \A at \in DOMAIN env_storage :
         at > h.at => at >= h.at + SizeOf(h.string)

\* Through the table, the program has a map: one value for a name, that setenv changes for this
\* name alone and unsetenv takes away alone; a setenv without room changes nothing.
Value(env) == [name \in {env.storage[at].name : at \in Range(env.vars)} |->
                 env.storage[env.vars[Found(env, name)]].value]

DefaultMap == [name \in {string.name : string \in Range(default_env)} |->
                 (CHOOSE string \in Range(default_env) : string.name = name).value]

Map == INSTANCE EnvMap WITH Names <- EnvNames, Values <- EnvValues,
                            Default <- DefaultMap, environ <- Value(init_environment)

ImplementsEnvMap == Map!Spec
=============================================================================
