-------------------------------- MODULE Vault --------------------------------
(* The browser wallet of the dashboard.  localStorage, shared by the tabs, holds
   the wallets in plain text (a legacy list) or an encrypted vault; a tab that has
   unlocked the vault keeps the list, mirrored in its sessionStorage, and the
   derived key, in memory only.  Deriving a key and encrypting are asynchronous:
   what was captured when they were called is written when they end, in any order,
   unless they fail or the tab is reloaded or closed.

   A list is a set of wallets.  Whether a tab has a key matters to what it saves;
   which password and salt the key is of, and whether the user still knows them,
   says nothing of where the lists are and is left out.  What one handler writes to
   localStorage without an await is one step for other tabs; so is the encryption
   that follows the derivation of a key, with the write at its end.
   A page that loads reads its sessionStorage at once (refresh), so the two copies
   a tab has of its list are one variable. *)
EXTENDS Naturals, FiniteSets

CONSTANTS
    Wallet,      \* wallets
    Legacy,      \* those stored in plain text before there was a vault
    Tab,
    MaxKeys,     \* bound: keys derived for setups and changes of password
    MaxTasks,    \* bound: asynchronous calls under way at once
    MaxExits     \* bound: reloads and closed tabs

VARIABLES
    plain,       \* localStorage: the plain list
    vault,       \* localStorage: the vault, a list
    open,        \* each tab's list, if it is unlocked (memCache, sessionStorage)
    keyed,       \* the tabs that have a key (cachedKey, cachedSalt)
    tasks,       \* asynchronous work: what each call has captured
    mine,        \* the wallets the user has, and has not removed
    keys, exits

vars == <<plain, vault, open, keyed, tasks, mine, keys, exits>>
bounds == <<keys, exits>>

Nothing == <<>>
List    == SUBSET Wallet
Kinds   == {"save", "setup", "rekey", "rekeyOld", "unlock", "destroy"}
Task    == [kind : Kinds, tab : Tab, list : List]

VaultExists == vault # Nothing
Unlocked(t) == open[t] # Nothing
LoadWallets(t) ==
    IF ~VaultExists THEN plain ELSE IF Unlocked(t) THEN open[t][1] ELSE {}

Init ==
    /\ plain = Legacy /\ vault = Nothing
    /\ open = [t \in Tab |-> Nothing] /\ keyed = {}
    /\ tasks = {} /\ mine = Legacy
    /\ keys = 0 /\ exits = 0

-----------------------------------------------------------------------------
\* A change of password holds the array that is the tab's list, not a copy of it:
\* addWallet pushes to that array, removeWallet leaves it for a new one.
Sharing(t) == {x \in tasks : x.tab = t /\ x.kind = "rekey"}
Pushed(t, w) ==
    (tasks \ Sharing(t)) \cup {[x EXCEPT !.list = @ \cup {w}] : x \in Sharing(t)}
Parted(t) ==
    (tasks \ Sharing(t)) \cup {[x EXCEPT !.kind = "rekeyOld"] : x \in Sharing(t)}

\* saveWallets, memCacheSet: an unlocked tab keeps the list, and encrypts it anew
\* if it has the key; without a vault only an empty list is written.
SaveWallets(t, ws, held) ==
    IF VaultExists /\ Unlocked(t)
    THEN /\ open' = [open EXCEPT ![t] = <<ws>>]
         /\ IF t \notin keyed THEN tasks' = held
            ELSE /\ Cardinality(tasks) < MaxTasks
                 /\ tasks' = held \cup {[kind |-> "save", tab |-> t, list |-> ws]}
         /\ UNCHANGED plain
    ELSE /\ ws = {} /\ plain' = {}
         /\ UNCHANGED <<open, tasks>>

\* A new wallet, generated or imported.
AddToList(t, w) ==
    /\ w \notin LoadWallets(t) \cup Legacy
    /\ SaveWallets(t, LoadWallets(t) \cup {w}, Pushed(t, w))
    /\ mine' = mine \cup {w}
    /\ UNCHANGED <<vault, keyed, bounds>>

RemoveWallet(t, w) ==
    /\ w \in LoadWallets(t)
    /\ SaveWallets(t, LoadWallets(t) \ {w}, Parted(t))
    /\ mine' = mine \ {w}
    /\ UNCHANGED <<vault, keyed, bounds>>

-----------------------------------------------------------------------------
(* What the user starts: each tab's dialog runs one of these at a time. *)

Busy(t) == \E x \in tasks : x.tab = t /\ x.kind # "save"

Start(t, kind, list) ==
    /\ ~Busy(t)
    /\ Cardinality(tasks) < MaxTasks
    /\ tasks' = tasks \cup {[kind |-> kind, tab |-> t, list |-> list]}
    /\ UNCHANGED <<plain, vault, open, keyed, mine, exits>>

\* setupVault, or lockVault of the plain list; a new key.
SetupVault(t) ==
    /\ ~VaultExists /\ keys < MaxKeys /\ keys' = keys + 1
    /\ Start(t, "setup", plain)

\* onRekey: persistVaultUpdate with another password, and a key derived from it.
PersistVaultUpdate(t) ==
    /\ VaultExists /\ Unlocked(t) /\ keys < MaxKeys /\ keys' = keys + 1
    /\ Start(t, "rekey", open[t][1])

\* Also asked of an unlocked tab, to check the password before a key is shown or a
\* transfer is sent.
UnlockVault(t) ==
    /\ VaultExists
    /\ Start(t, "unlock", vault[1]) /\ UNCHANGED keys

DestroyVault(t) ==
    /\ VaultExists /\ Unlocked(t)
    /\ Start(t, "destroy", vault[1]) /\ UNCHANGED keys

-----------------------------------------------------------------------------
(* How it ends. *)

Ends(x) == x \in tasks /\ tasks' = tasks \ {x}

EndSave(x) ==
    /\ Ends(x) /\ x.kind = "save"
    /\ vault' = <<x.list>>
    /\ UNCHANGED <<plain, open, keyed, mine, bounds>>

\* writeVaultedWallets, once the key is derived and the list encrypted with it.
WriteVaulted(x) ==
    /\ vault' = <<x.list>>
    /\ open' = [open EXCEPT ![x.tab] = <<x.list>>]
    /\ keyed' = keyed \cup {x.tab}

\* Mutant: the plain list goes first, and the vault may not come.
EndSetupWipingFirst(x) ==
    /\ Ends(x) /\ x.kind = "setup"
    /\ plain' = {}
    /\ WriteVaulted(x) \/ UNCHANGED <<vault, open, keyed>>
    /\ UNCHANGED <<mine, bounds>>

\* The plain list is wiped once the vault is there, unless the tab dies in between.
EndSetup(x) ==
    /\ Ends(x) /\ x.kind = "setup"
    /\ \/ plain' = {} /\ WriteVaulted(x)
       \/ vault' = <<x.list>> /\ UNCHANGED <<plain, open, keyed>>
    /\ UNCHANGED <<mine, bounds>>

EndRekey(x) ==
    /\ Ends(x) /\ x.kind \in {"rekey", "rekeyOld"}
    /\ WriteVaulted(x)
    /\ UNCHANGED <<plain, mine, bounds>>

EndUnlock(x) ==
    /\ Ends(x) /\ x.kind = "unlock"
    /\ open' = [open EXCEPT ![x.tab] = <<x.list>>]
    /\ keyed' = keyed \cup {x.tab}
    /\ UNCHANGED <<plain, vault, mine, bounds>>

\* With a full storage nothing is removed, and the key is forgotten all the same.
EndDestroy(x) ==
    /\ Ends(x) /\ x.kind = "destroy"
    /\ \/ /\ plain' = x.list /\ vault' = Nothing
          /\ open' = [open EXCEPT ![x.tab] = Nothing]
       \/ open' = [open EXCEPT ![x.tab] = <<x.list>>] /\ UNCHANGED <<plain, vault>>
    /\ keyed' = keyed \ {x.tab}
    /\ UNCHANGED <<mine, bounds>>

\* A wrong password, or a storage that is full.
Fail(x) == Ends(x) /\ UNCHANGED <<plain, vault, open, keyed, mine, bounds>>

\* A reload forgets the key and the work under way, and keeps the list.
Reload(t) ==
    /\ exits < MaxExits /\ exits' = exits + 1
    /\ keyed' = keyed \ {t}
    /\ tasks' = {x \in tasks : x.tab # t}
    /\ UNCHANGED <<plain, vault, open, mine, keys>>

Close(t) ==
    /\ exits < MaxExits /\ exits' = exits + 1
    /\ open' = [open EXCEPT ![t] = Nothing]
    /\ keyed' = keyed \ {t}
    /\ tasks' = {x \in tasks : x.tab # t}
    /\ UNCHANGED <<plain, vault, mine, keys>>

-----------------------------------------------------------------------------
User(t) ==
    \/ SetupVault(t) \/ PersistVaultUpdate(t) \/ UnlockVault(t) \/ DestroyVault(t)
    \/ Reload(t) \/ Close(t)
    \/ \E w \in Wallet : AddToList(t, w) \/ RemoveWallet(t, w)

End(x) == EndSave(x) \/ EndSetup(x) \/ EndRekey(x) \/ EndUnlock(x) \/ EndDestroy(x) \/ Fail(x)

Next == (\E t \in Tab : User(t)) \/ (\E x \in tasks : End(x))

Spec == Init /\ [][Next]_vars

-----------------------------------------------------------------------------
\* The variables keep their types.
TypeOK ==
    /\ plain \in List /\ mine \in List
    /\ vault \in {Nothing} \cup {<<ws>> : ws \in List}
    /\ open \in [Tab -> {Nothing} \cup {<<ws>> : ws \in List}]
    /\ keyed \subseteq Tab
    /\ tasks \subseteq Task

OnDisk == plain \cup IF VaultExists THEN vault[1] ELSE {}

\* The wallets a user had before the vault are at every moment in localStorage, in
\* plain text or in the vault, unless the user removes them: set-ups, changes of
\* password, saves that end late, opt-outs, reloads and closed tabs in any order
\* (setupVault, lockVault, destroyVault).
LegacyKept == Legacy \cap mine \subseteq OnDisk

\* A wallet that was added is somewhere as long as its tab is open: in the list of
\* a tab, in the vault, or on its way there (memCacheSet: "a broken localStorage
\* write here doesn't lose data").
KeptSomewhere ==
    mine \subseteq OnDisk \cup UNION {open[t][1] : t \in {u \in Tab : Unlocked(u)}}
                          \cup UNION {x.list : x \in tasks}
=============================================================================
