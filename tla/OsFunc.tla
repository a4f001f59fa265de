------------------------------- MODULE OsFunc -------------------------------
(***************************************************************************)
(* The cached addresses of system functions, filled by several threads at  *)
(* once: GET_OS_FUNC of util.h, realpath_internal of realpath.c and        *)
(* sys_recvmsg of packet.c. An address is the variant it belongs to, or    *)
(* Null. The caches are plain variables: a value that is tested and then   *)
(* used again may be read again.                                           *)
(***************************************************************************)
EXTENDS Naturals

CONSTANTS FThreads, Styles
Null == "null"

VARIABLES
  present,  \* what the system has: "plain" always, "variant" perhaps
  adr,      \* [Styles -> cached address]
  fpc,      \* [FThreads -> where the thread is]
  style,    \* [FThreads -> the lookup it makes]
  local,    \* [FThreads -> the address it goes on with]
  owned     \* [FThreads -> buffers realpath has allocated and the caller must free]

fvars == <<present, adr, fpc, style, local, owned>>

FInit ==
  /\ present \in {{"plain"}, {"plain", "variant"}}
  /\ adr = [s \in Styles |-> Null]
  /\ fpc = [t \in FThreads |-> "idle"]
  /\ style = [t \in FThreads |-> "os_func"]
  /\ local = [t \in FThreads |-> Null]
  /\ owned = [t \in FThreads |-> 0]

Dlsym(name) == IF name \in present THEN name ELSE Null

Go(t, where) == fpc' = [fpc EXCEPT ![t] = where]

Store(t, name) == adr' = [adr EXCEPT ![style[t]] = Dlsym(name)]

-----------------------------------------------------------------------------
(* The first test of all three: is there an address?                       *)
Test(t) ==
  /\ fpc[t] = "idle"
  /\ \E s \in Styles :
       /\ style' = [style EXCEPT ![t] = s]
       /\ local' = [local EXCEPT ![t] = adr[s]]
       /\ Go(t, IF adr[s] = Null THEN "lookup" ELSE "found")
  /\ owned' = [owned EXCEPT ![t] = 0]
  /\ UNCHANGED <<present, adr>>

(* GET_OS_ALT_FUNC: stores what dlsym gives and aborts if that is nothing. *)
(* The macro is used with names that exist.                                *)
LookupOsFunc(t) ==
  /\ fpc[t] = "lookup" /\ style[t] = "os_func"
  /\ Store(t, "plain") /\ Go(t, "found")
  /\ local' = [local EXCEPT ![t] = Dlsym("plain")]
  /\ UNCHANGED <<present, style, owned>>

(* realpath_internal and sys_recvmsg store what they find, nothing too,    *)
(* before they look for the basic version.                                 *)
LookupVariant(t) ==
  /\ fpc[t] = "lookup" /\ style[t] # "os_func"
  /\ Store(t, "variant")
  /\ local' = [local EXCEPT ![t] = Dlsym("variant")]
  /\ Go(t, IF Dlsym("variant") = Null THEN "fallback" ELSE "found")
  /\ UNCHANGED <<present, style, owned>>

LookupBasic(t) ==
  /\ fpc[t] = "fallback"
  /\ Store(t, "plain") /\ Go(t, "found")
  /\ local' = [local EXCEPT ![t] = Dlsym("plain")]
  /\ UNCHANGED <<present, style, owned>>

\* Mutant: realpath reads the cache again, too.
CalledFromCache(t) == {local[t], adr[style[t]]}

(* The call: the macro and sys_recvmsg read the cache again, or the value  *)
(* just tested is still in a register; realpath has it in a variable.      *)
Called(t) == IF style[t] = "realpath" THEN {local[t]} ELSE {local[t], adr[style[t]]}

Call(t) ==
  /\ fpc[t] = "found" /\ style[t] # "realpath"
  /\ \E a \in Called(t) : local' = [local EXCEPT ![t] = a]
  /\ Go(t, "called")
  /\ UNCHANGED <<present, adr, style, owned>>

(* realpath with a buffer, or without one: then it is allocated, and freed *)
(* when the system's realpath fails.                                       *)
Kept(ok) == IF ok THEN 1 ELSE 0

CallRealpath(t) ==
  /\ fpc[t] = "found" /\ style[t] = "realpath"
  /\ \E a \in Called(t) : local' = [local EXCEPT ![t] = a]
  /\ \E given, ok, memory \in BOOLEAN :
       /\ owned' = [owned EXCEPT ![t] = IF given \/ ~memory THEN 0 ELSE Kept(ok)]
       /\ Go(t, IF ok /\ (given \/ memory) THEN "called" ELSE "failed")
  /\ UNCHANGED <<present, adr, style>>

Again(t) ==
  /\ fpc[t] \in {"called", "failed"}
  /\ Go(t, "idle")
  /\ local' = [local EXCEPT ![t] = Null] /\ owned' = [owned EXCEPT ![t] = 0]
  /\ UNCHANGED <<present, adr, style>>

FNext ==
  \E t \in FThreads :
    \/ Test(t) \/ LookupOsFunc(t) \/ LookupVariant(t) \/ LookupBasic(t) \/ Call(t)
    \/ CallRealpath(t) \/ Again(t)

-----------------------------------------------------------------------------
\* What is called is never a null address and, for realpath and recvmsg, is the variant
\* that was asked for when the system has it, whichever threads fill the cache at the
\* same time. Left open: recvmsg on a system without the variant, where a thread stores
\* null over the address another one has just found (sys_recvmsg).
RightFunctionCalled ==
  \A t \in FThreads :
    fpc[t] \in {"called", "failed"} =>
      \/ local[t] = (IF style[t] # "os_func" /\ "variant" \in present THEN "variant" ELSE "plain")
      \/ style[t] = "recvmsg" /\ "variant" \notin present

\* A realpath that fails leaves no buffer behind (realpath_internal).
NothingLeaked == \A t \in FThreads : fpc[t] = "failed" => owned[t] = 0
=============================================================================
