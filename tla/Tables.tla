-------------------------------- MODULE Tables --------------------------------
(***************************************************************************)
(* The tables that zimrd and a web application keep in lists of simclist.c: *)
(* the websites of website.c in both, and in the application the loaded    *)
(* modules and, for each website, its public directories and its modules.  *)
(* prog says which of the two programs this process is; expected is what   *)
(* the callers asked the tables to hold.                                   *)
(***************************************************************************)
EXTENDS Website

CONSTANTS
  FullUrls,   \* [protocol, url]: the websites there can be
  Ips,        \* the addresses a website can be on
  Requests,   \* [protocol, url, ip]: the requests of clients
  Names,      \* the modules there are
  Dirs,       \* the public directories, positive numbers
  Dot,        \* the one every website begins with
  MaxSites,   \* bound: the websites in zimrd's table
  MaxAppSites,\* bound: the websites of an application
  MaxDirs,    \* bound: the public directories of a website
  AppUrls,    \* the websites an application can have
  DirSites    \* bound: the websites whose public directories change

ASSUME SizesAssumption ==
  MaxSites <= MaxEntries /\ MaxAppSites <= MaxSites /\ MaxDirs <= MaxEntries

VARIABLES prog, websites, sites, loaded_modules, modules, pubdirs, module_data, expected

vars == <<prog, websites, sites, loaded_modules, modules, pubdirs, module_data, expected>>

Pointers == 1..MaxSites
Freed == "freed"
Live(heap) == {p \in Pointers : heap[p] # Freed}
malloc(heap) == CHOOSE p \in Pointers \ Live(heap) : \A q \in Pointers \ Live(heap) : p <= q

\* A website_t that is not allocated.
NoSite == [sockfd |-> -2]
LiveSites == {w \in Pointers : sites[w] # NoSite}
NewSite == CHOOSE w \in Pointers \ LiveSites : \A q \in Pointers \ LiveSites : w <= q

Init ==
  /\ prog \in {"zimrd", "webapp"}
  /\ websites = list_init
  /\ sites = [w \in Pointers |-> NoSite]
  /\ loaded_modules = list_init
  /\ modules = [m \in Pointers |-> Freed]
  /\ pubdirs = [w \in Pointers |-> list_init]
  /\ module_data = [w \in Pointers |-> list_init]
  /\ expected = [websites |-> <<>>, modules |-> <<>>,
                 pubdirs |-> [w \in Pointers |-> <<>>], uses |-> [w \in Pointers |-> {}]]
----------------------------------------------------------------------------
(* zimrd. *)

\* A registration: refused when the url is there already.
start_website(full_url, ip) ==
  /\ prog = "zimrd"
  /\ Cardinality(LiveSites) < MaxSites
  /\ website_get_by_full_url(websites, sites, full_url, ip) = NULL
  /\ LET w == NewSite
     IN  /\ sites' = [sites EXCEPT ![w] = NewWebsite(w, full_url, ip)]
         /\ websites' = website_add(websites, w)
         /\ expected' = [expected EXCEPT !.websites = Append(@, w)]
  /\ UNCHANGED <<prog, loaded_modules, modules, pubdirs, module_data>>

\* The website of a link goes.
remove_website(fd) ==
  LET w == website_get_by_sockfd(websites, sites, fd)
  IN  /\ prog = "zimrd"
      /\ w # NULL
      /\ websites' = website_remove(websites, w)
      /\ sites' = [sites EXCEPT ![w] = NoSite]
      /\ expected' = [expected EXCEPT !.websites = SelectSeq(@, LAMBDA v : v # w)]
      /\ UNCHANGED <<prog, loaded_modules, modules, pubdirs, module_data>>
----------------------------------------------------------------------------
(* The application: public directories. *)

\* Where pos is: a negative one counts from the end.  list_size is unsigned, so a
\* position before the first is taken for one behind the last.
Position(size, pos) ==
  LET at == IF pos < 0 THEN size + pos + 1 ELSE pos
  IN  IF at < 0 \/ at > size THEN size ELSE at

\* The directory at pos is replaced; NULL takes it away.
zimr_website_insert_pubdir(l, dir, pos) ==
  LET at == Position(list_size(l), pos)
      k == IF list_get_at(l, at) # NULL THEN list_extract_at(l, at) ELSE l
  IN  IF dir = NULL THEN k
      ELSE list_insert_at(k, dir, IF at > list_size(k) THEN list_size(k) ELSE at)

\* What the caller asks for.
Inserted(s, dir, pos) ==
  LET at == Position(Len(s), pos)
  IN  IF at = Len(s) THEN (IF dir = NULL THEN s ELSE Append(s, dir))
      ELSE IF dir = NULL THEN RemoveAt(s, at + 1)
      ELSE [s EXCEPT ![at + 1] = dir]

InsertPubdir(w, dir, pos) ==
  /\ prog = "webapp"
  /\ w \in LiveSites
  /\ Len(Inserted(expected.pubdirs[w], dir, pos)) <= MaxDirs
  /\ pubdirs' = [pubdirs EXCEPT ![w] = zimr_website_insert_pubdir(@, dir, pos)]
  /\ expected' = [expected EXCEPT !.pubdirs[w] = Inserted(@, dir, pos)]
  /\ UNCHANGED <<prog, websites, sites, loaded_modules, modules, module_data>>
----------------------------------------------------------------------------
(* The application: websites. *)

\* The website's lists; its first public directory is the working directory.
zimr_website_create(full_url) ==
  /\ prog = "webapp"
  /\ Cardinality(LiveSites) < MaxAppSites
  /\ LET w == NewSite
     IN  /\ sites' = [sites EXCEPT ![w] = NewWebsite(-1, full_url, "0.0.0.0")]
         /\ websites' = website_add(websites, w)
         /\ pubdirs' = [pubdirs EXCEPT ![w] = zimr_website_insert_pubdir(list_init, Dot, 0)]
         /\ module_data' = [module_data EXCEPT ![w] = list_init]
         /\ expected' = [expected EXCEPT !.websites = Append(@, w), !.pubdirs[w] = <<Dot>>]
  /\ UNCHANGED <<prog, loaded_modules, modules>>

\* The lists are emptied, destroyed and the website leaves the table.
zimr_website_destroy(w) ==
  /\ prog = "webapp"
  /\ w \in LiveSites
  /\ websites' = website_remove(websites, w)
  /\ sites' = [sites EXCEPT ![w] = NoSite]
  /\ pubdirs' = [pubdirs EXCEPT ![w] = list_init]
  /\ module_data' = [module_data EXCEPT ![w] = list_init]
  /\ expected' = [expected EXCEPT !.websites = SelectSeq(@, LAMBDA v : v # w),
                                  !.pubdirs[w] = <<>>, !.uses[w] = {}]
  /\ UNCHANGED <<prog, loaded_modules, modules>>
----------------------------------------------------------------------------
(* The application: modules. *)

\* The place of the first module of a list that has the name.
ModuleAt(l, heap, name) ==
  LET at == {i \in 0..(list_size(l) - 1) : heap[list_get_at(l, i)] = name}
  IN  IF at = {} THEN -1 ELSE CHOOSE i \in at : \A j \in at : i <= j

\* zimr_load_module.  outcome: what dlopen and modzimr_init do.  A module whose
\* modzimr_init failed stays in the list although the result is NULL.
zimr_load_module(list, heap, name, outcome) ==
  LET at == ModuleAt(list, heap, name)
      m == malloc(heap)
  IN  IF at >= 0 THEN [list |-> list, heap |-> heap, module |-> list_get_at(list, at)]
      ELSE IF outcome = "no file" THEN [list |-> list, heap |-> heap, module |-> NULL]
      ELSE [list |-> list_append(list, m), heap |-> [heap EXCEPT ![m] = name],
            module |-> IF outcome = "ok" THEN m ELSE NULL]

\* zimr_unload_module: the module leaves the list and is freed.
zimr_unload_module(list, heap, m) ==
  [list |-> list_extract_at(list, ModuleAt(list, heap, heap[m])), heap |-> [heap EXCEPT ![m] = Freed]]

zimr_website_load_module(l, m) == list_append(l, m)

\* A module that the configuration of a website names, once for each website.
LoadModule(w, name, outcome) ==
  LET r == zimr_load_module(loaded_modules, modules, name, outcome)
  IN  /\ prog = "webapp"
      /\ w \in LiveSites
      /\ name \notin expected.uses[w]
      /\ loaded_modules' = r.list
      /\ modules' = r.heap
      /\ module_data' = IF r.module = NULL THEN module_data
                        ELSE [module_data EXCEPT ![w] = zimr_website_load_module(@, r.module)]
      /\ expected' =
           [expected EXCEPT
              !.modules = IF r.list = loaded_modules THEN @ ELSE Append(@, name),
              !.uses[w] = IF r.module = NULL THEN @ ELSE @ \cup {name}]
      /\ UNCHANGED <<prog, websites, sites, pubdirs>>

\* The websites that have the module, each of which loses it ...
Users(name) == {w \in LiveSites : ModuleAt(module_data[w], modules, name) >= 0}

\* Mutant: the search ends at the first website that has the module.
Withdrawn_from_first(name) ==
  [w \in Pointers |->
     IF w \in Users(name) /\ \A v \in Users(name) : list_locate(websites, w) <= list_locate(websites, v)
     THEN list_extract_at(module_data[w], ModuleAt(module_data[w], modules, name))
     ELSE module_data[w]]

Withdrawn(name) ==
  [w \in Pointers |->
     IF w \in Users(name)
     THEN list_extract_at(module_data[w], ModuleAt(module_data[w], modules, name))
     ELSE module_data[w]]

\* ... and gets the one that is loaded instead.  The module's own code asks for it.
\* Without one the application ends: zimr_website_load_module reads its name.
zimr_reload_module(name, outcome) ==
  LET old == list_get_at(loaded_modules, ModuleAt(loaded_modules, modules, name))
      un == zimr_unload_module(loaded_modules, modules, old)
      re == zimr_load_module(un.list, un.heap, name, outcome)
      data == Withdrawn(name)
      rest == SelectSeq(expected.modules, LAMBDA n : n # name)
  IN  /\ prog = "webapp"
      /\ ModuleAt(loaded_modules, modules, name) >= 0
      /\ prog' = IF re.module = NULL /\ Users(name) # {} THEN "ended" ELSE prog
      /\ loaded_modules' = re.list
      /\ modules' = re.heap
      /\ module_data' = IF re.module = NULL THEN data
                        ELSE [w \in Pointers |->
                                IF w \in Users(name) THEN zimr_website_load_module(data[w], re.module)
                                ELSE data[w]]
      /\ expected' = [expected EXCEPT !.modules = IF outcome = "no file" THEN rest ELSE Append(rest, name)]
      /\ UNCHANGED <<websites, sites, pubdirs>>

\* Every website is destroyed and every module unloaded, from the first on.
zimr_shutdown ==
  /\ prog = "webapp"
  /\ prog' = "ended"
  /\ websites' = Fetched(websites)
  /\ sites' = [w \in Pointers |-> NoSite]
  /\ loaded_modules' = Fetched(loaded_modules)
  /\ modules' = [m \in Pointers |-> Freed]
  /\ pubdirs' = [w \in Pointers |-> list_init]
  /\ module_data' = [w \in Pointers |-> list_init]
  /\ expected' = [websites |-> <<>>, modules |-> <<>>,
                  pubdirs |-> [w \in Pointers |-> <<>>], uses |-> [w \in Pointers |-> {}]]
----------------------------------------------------------------------------
Outcomes == {"ok", "no file", "init fails"}

Next ==
  \/ \E u \in FullUrls, ip \in Ips : start_website(u, ip)
  \/ \E fd \in Pointers : remove_website(fd)
  \/ \E u \in AppUrls : zimr_website_create(u)
  \/ \E w \in Pointers : zimr_website_destroy(w)
  \/ \E w \in DirSites, dir \in Dirs \cup {NULL}, pos \in -MaxDirs..MaxDirs : InsertPubdir(w, dir, pos)
  \/ \E w \in Pointers, name \in Names, outcome \in Outcomes : LoadModule(w, name, outcome)
  \/ \E name \in Names, outcome \in Outcomes : zimr_reload_module(name, outcome)
  \/ zimr_shutdown

Spec == Init /\ [][Next]_vars
----------------------------------------------------------------------------
\* Whatever elements were inserted, replaced and removed, and in whatever order,
\* list_get_at gives at every position what the callers put there, from the head,
\* the tail and the middle alike: the table of websites, the loaded modules and the
\* public directories of every website hold what they were asked to hold.
ListsHold ==
  /\ Holds(websites, expected.websites)
  /\ list_repOk(loaded_modules)
  /\ [i \in 1..list_size(loaded_modules) |-> modules[list_get_at(loaded_modules, i - 1)]]
       = expected.modules
  /\ \A w \in Pointers : Holds(pubdirs[w], expected.pubdirs[w])

\* A request: the websites that could serve it.
Host(url) == url[1]
Port(url) == IF Len(url) > 1 /\ url[2] \in Ports THEN url[2] ELSE "default"

Serves(w, r) ==
  /\ sites[w].protocol = r.protocol
  /\ sites[w].ip = r.ip
  /\ Host(sites[w].url) \in {"*", Host(r.url)}
  /\ Port(sites[w].url) = Port(r.url)
  /\ IsPrefix(Path(sites[w].url), Path(r.url))

MoreSpecific(v, w) ==
  LET a == Len(Path(sites[v].url))
      b == Len(Path(sites[w].url))
  IN  a > b \/ (a = b /\ Host(sites[v].url) # "*")

\* In whatever order the websites were registered and removed, zimrd gives a request
\* to the website with the longest path that serves it and, among equal paths, to
\* the one that names the host; to none only when none serves it.  A path serves
\* what begins with its text, /a also /ab.  A request without port but with a colon
\* in its path is excepted: website_find takes the colon for the port's.
FindsMostSpecific ==
  prog = "zimrd" =>
    \A r \in {q \in Requests : \A i \in 3..Len(q.url) : q.url[i] \notin Ports} :
      LET found == website_find(websites, sites, r.url, r.protocol, r.ip)
          serving == {w \in LiveSites : Serves(w, r)}
      IN  IF serving = {} THEN found = NULL
          ELSE found \in serving /\ \A w \in serving \ {found} : MoreSpecific(found, w)

\* No website of a running application holds a module that was unloaded: after any
\* loading, failed loading and reloading its modules are loaded ones, and they are
\* those its configuration gave it.
ModulesLive ==
  prog = "webapp" =>
    \A w \in LiveSites :
      LET held == [i \in 1..list_size(module_data[w]) |-> list_get_at(module_data[w], i - 1)]
      IN  /\ \A i \in DOMAIN held : list_locate(loaded_modules, held[i]) >= 0
          /\ {modules[held[i]] : i \in DOMAIN held} = expected.uses[w]
          /\ Len(held) = Cardinality(expected.uses[w])
=============================================================================
