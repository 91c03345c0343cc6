----------------------------- MODULE LibraryView -----------------------------
(***************************************************************************)
(* The library view of the desktop page (ui/library.js): folders of a      *)
(* Vita, loaded page by page over Wi-Fi or USB, with a selection, Select   *)
(* all and Copy.                                                           *)
(*                                                                         *)
(* The page's script has one thread, but every request to the Vita is an   *)
(* await: between a request and its answer the user opens another folder,  *)
(* closes the view, types another address, starts a copy, and the Vita's   *)
(* library changes.  A continuation is kept as state: `loads` are the      *)
(* page requests under way, `alls` the views for which a Select all waits, *)
(* `copy` the copy under way.  An action runs from one await to the next.  *)
(***************************************************************************)
EXTENDS Integers, FiniteSets, Sequences, Functions

CONSTANTS
    Vitas,       \* the Vitas, each reached by its address
    Cabled,      \* the one that a USB cable can connect
    Kinds,       \* the folders: "photo", and any of "music" and "video"
    Library,     \* what each Vita holds at first: Library[v][k] is a set of numbers
    Ids,         \* the numbers (mrid) a medium can have
    InOrder,     \* the order in which a transport lists the media of a folder
    Changing,    \* the media, <<Vita, folder, number>>, that may be added or deleted
    PageSize,    \* 32 in the code
    MaxViews,    \* bound: views opened (values of `generation`)
    MaxChanges   \* bound: media added or removed, and cables plugged in

ASSUME ViewAssumption ==
    /\ Cabled \in Vitas /\ PageSize \in Nat \ {0} /\ Ids \subseteq Nat /\ IsFiniteSet(Ids)
    /\ "photo" \in Kinds /\ Kinds \subseteq {"photo", "music", "video"}
    /\ MaxViews \in Nat /\ MaxChanges \in Nat
    /\ Library \in [Vitas -> [Kinds -> SUBSET Ids]] /\ Changing \subseteq Vitas \X Kinds \X Ids
    /\ InOrder \in [{"usb", "wifi"} -> [SUBSET Ids -> Seq(Ids)]]
    /\ \A via \in {"usb", "wifi"}, ns \in SUBSET Ids :
         Range(InOrder[via][ns]) = ns /\ Len(InOrder[via][ns]) = Cardinality(ns)

VARIABLES
    \* vitaLibrary, and the class from-vita of the document
    kind, items, selected, next, loading, generation, selectingAll, copying, transport, open,
    address,     \* the text of the address field
    typed,       \* it was edited and the field's change event is still to come
    loads, alls, copy,
    rows,        \* the media each Vita holds
    usb,         \* the catalogue of the cabled Vita as it was when it was plugged in, or NoCable
    changes,     \* library changes and plugs so far
    moved,       \* history: the address changed since the view was opened
    replugged,   \* history: a cable was plugged in since the view was opened
    changed      \* history: a library or the cable changed since the view was opened

page == <<kind, items, selected, next, loading, generation, selectingAll, copying, transport, open>>
view == <<kind, generation, copying, open>>
vita == <<rows, usb, changes>>
history == <<moved, replugged, changed>>
vars == <<page, address, typed, loads, alls, copy, vita, history>>

(***************************************************************************)
(* The Vita's answers                                                      *)
(***************************************************************************)

NoCable == <<>>

\* The media of a folder as a transport lists them, each <<Vita, folder, number>>: by date or
\* title, which the Vita's query and the sort on the PC need not put into the same order.
Media(via, v, k) == LET ns == InOrder[via][rows[v][k]] IN [i \in DOMAIN ns |-> <<v, k, ns[i]>>]

\* The items of a folder, with the ID under which the transport knows them: the row's
\* number, or the position in the catalogue, where the folders and in them the numbers are
\* in order (vcm_mtp_snapshot_build; the sidecars between them are left out).
Rank(k) == IF k = "photo" THEN 1 ELSE IF k = "music" THEN 2 ELSE 3
Position(k, n) ==
    Cardinality({m \in Kinds \X Ids : /\ m[2] \in rows[Cabled][m[1]]
                                      /\ Rank(m[1]) < Rank(k) \/ (m[1] = k /\ m[2] <= n)})
WifiFolder(v, k) == LET ms == Media("wifi", v, k)
                    IN [i \in DOMAIN ms |-> [media |-> ms[i], id |-> <<"wifi", ms[i][3]>>]]
Catalogue == [k \in Kinds |-> LET ms == Media("usb", Cabled, k)
                              IN [i \in DOMAIN ms |-> [media |-> ms[i], id |-> <<"usb", Position(k, ms[i][3])>>]]]
UsbFolder(k) == IF usb = NoCable THEN <<>> ELSE usb[k]
Folder(via, v, k) == IF via = "usb" THEN UsbFolder(k) ELSE WifiFolder(v, k)

\* LIMIT and OFFSET; one row more than the page tells that there is a next one.
vcm_library_list_LastFullPage(folder, offset) ==
    LET end == offset + PageSize
    IN [rows |-> SubSeq(folder, offset + 1, IF end < Len(folder) THEN end ELSE Len(folder)),
        next |-> IF Len(folder) > end + 1 THEN end ELSE -1]
vcm_library_list(folder, offset) ==
    LET end == offset + PageSize
    IN [rows |-> SubSeq(folder, offset + 1, IF end < Len(folder) THEN end ELSE Len(folder)),
        next |-> IF Len(folder) > end THEN end ELSE -1]

\* What a download request for an ID yields: a medium, or nothing.
Downloaded(c, id) ==
    LET known == IF c.via = "usb" THEN UNION {Range(UsbFolder(k)) : k \in Kinds}
                                  ELSE Range(WifiFolder(c.ip, c.kind))
    IN {i.media : i \in {j \in known : j.id = id}}

(***************************************************************************)
(* Loading pages                                                           *)
(***************************************************************************)

IdsOf(seq) == {seq[i].id : i \in DOMAIN seq}

\* loadLibraryPageBody's locals, at its first await.
Request(gen, k, offset, ip) ==
    [gen |-> gen, kind |-> k, offset |-> offset, ip |-> ip, phase |-> "page"]

\* loadLibraryPage: nothing is started while a page is loading, at the end, or closed.
loadLibraryPage ==
    /\ ~loading /\ next >= 0 /\ open
    /\ loading' = TRUE
    /\ loads' = loads \cup {Request(generation, kind, next, address)}

\* DesktopApi.library_page: USB if it is there, Wi-Fi otherwise or if that fails.
library_page(l, via) == vcm_library_list(Folder(via, l.ip, l.kind), l.offset)

\* The finally of loadLibraryPageBody, with the page that it requests if the view is not
\* full yet, and then the Select all that awaits this load.
Finish_SharedFlag(l, ok) ==
    \E roomy \in BOOLEAN :
      /\ loading' = FALSE
      /\ loads' = loads \ {l}
      /\ selected' = IF l.gen \in alls /\ ok THEN selected \cup IdsOf(items') ELSE selected
      /\ alls' = alls \ {l.gen}
      /\ selectingAll' = (selectingAll /\ l.gen \notin alls)
Finish(l, ok) ==
    LET mine  == l.gen = generation
        waits == l.gen \in alls
        more  == waits /\ ok /\ mine /\ next' >= 0
    IN \E roomy \in BOOLEAN :
         LET start == mine /\ open /\ next' >= 0 /\ (roomy \/ more)
         IN /\ loading' = IF mine THEN start ELSE loading
            /\ loads' = (loads \ {l}) \cup
                        (IF start THEN {Request(generation, kind, next', address)} ELSE {})
            /\ selected' = IF waits /\ ok THEN selected \cup IdsOf(items') ELSE selected
            /\ alls' = IF more THEN alls ELSE alls \ {l.gen}
            /\ selectingAll' = (selectingAll /\ (waits => more))

\* The answer arrives: a late one is dropped, the others are shown.  Photos without a
\* cached preview are followed by a request for the previews.  (The answer is what the
\* Vita holds at this moment; a change of the library between answer and arrival is a change
\* after the arrival that the user has not looked at yet.)
PageArrives_Late(l, via) ==
    /\ l.phase = "page"
    /\ via = "usb" => usb # NoCable
    /\ items' = items \o library_page(l, via).rows
    /\ next' = library_page(l, via).next
    /\ transport' = via
    /\ Finish(l, TRUE)
    /\ UNCHANGED <<view, address, typed, copy, vita, history>>
PageArrives(l, via) ==
    /\ l.phase = "page"
    /\ via = "usb" => usb # NoCable
    /\ \/ /\ l.gen # generation
          /\ UNCHANGED <<items, next, transport>>
          /\ Finish(l, FALSE)
       \/ /\ l.gen = generation
          /\ items' = items \o library_page(l, via).rows
          /\ next' = library_page(l, via).next
          /\ transport' = via
          /\ \/ Finish(l, TRUE)
             \/ /\ l.kind = "photo" /\ library_page(l, via).rows # <<>>
                /\ loads' = (loads \ {l}) \cup {[l EXCEPT !.phase = "thumbs"]}
                /\ UNCHANGED <<selected, loading, alls, selectingAll>>
    /\ UNCHANGED <<view, address, typed, copy, vita, history>>

\* library_page raises.
PageFails(l) ==
    /\ l.phase = "page"
    /\ UNCHANGED <<items, next, transport>>
    /\ Finish(l, FALSE)
    /\ UNCHANGED <<view, address, typed, copy, vita, history>>

\* The previews arrive or not: the load has succeeded in any case.
ThumbsArrive(l) ==
    /\ l.phase = "thumbs"
    /\ UNCHANGED <<items, next, transport>>
    /\ Finish(l, TRUE)
    /\ UNCHANGED <<view, address, typed, copy, vita, history>>

(***************************************************************************)
(* What the user does                                                      *)
(***************************************************************************)

\* A new view from its first page.
NewView(k) ==
    /\ generation < MaxViews
    /\ kind' = k
    /\ generation' = generation + 1
    /\ items' = <<>> /\ selected' = {} /\ next' = 0
    /\ selectingAll' = FALSE
    /\ loading' = TRUE
    /\ loads' = loads \cup {Request(generation + 1, k, 0, address)}
    /\ moved' = FALSE /\ replugged' = FALSE /\ changed' = FALSE
    /\ UNCHANGED <<copying, transport, alls, copy>>
KeepView == UNCHANGED <<page, loads, alls, copy, history>>

\* Refused while a copy runs.
selectLibraryKind_WhileCopying(k) == NewView(k)
selectLibraryKind(k) == IF copying THEN KeepView ELSE NewView(k)

\* openLibrary, a folder's button and Refresh.
openLibrary(k) ==
    /\ ~typed
    /\ open' = TRUE
    /\ selectLibraryKind(k)
    /\ UNCHANGED <<address, typed, vita>>

closeLibrary ==
    /\ ~typed /\ open /\ ~copying
    /\ generation < MaxViews
    /\ generation' = generation + 1
    /\ open' = FALSE
    /\ moved' = FALSE /\ replugged' = FALSE /\ changed' = FALSE
    /\ UNCHANGED <<kind, items, selected, next, loading, selectingAll, copying, transport,
                   address, typed, loads, alls, copy, vita>>

Scroll ==
    /\ loadLibraryPage
    /\ UNCHANGED <<view, items, selected, next, selectingAll, transport, address, typed, alls, copy,
                   vita, history>>

toggleLibraryItem ==
    /\ ~typed /\ open
    /\ \E id \in IdsOf(items) :
         selected' = IF id \in selected THEN selected \ {id} ELSE selected \cup {id}
    /\ UNCHANGED <<kind, items, next, loading, generation, selectingAll, copying, transport, open,
                   address, typed, loads, alls, copy, vita, history>>

\* Select all, up to its first await: it joins the load under way or starts one.
SelectAll ==
    /\ ~typed /\ open /\ ~selectingAll /\ ~copying
    /\ ~(next < 0 /\ items # <<>> /\ Cardinality(selected) = Len(items))
    /\ selected' = selected \cup IdsOf(items)
    /\ IF next < 0
       THEN UNCHANGED <<selectingAll, alls, loads, loading>>
       ELSE /\ selectingAll' = TRUE
            /\ alls' = alls \cup {generation}
            /\ \/ loading /\ UNCHANGED <<loads, loading>>
               \/ loadLibraryPage
    /\ UNCHANGED <<view, items, next, transport, address, typed, copy, vita, history>>

\* The same button when everything is shown and selected.
DeselectAll ==
    /\ ~typed /\ open /\ ~selectingAll /\ ~copying
    /\ next < 0 /\ items # <<>> /\ Cardinality(selected) = Len(items)
    /\ selected' = selected \ IdsOf(items)
    /\ UNCHANGED <<view, items, next, loading, selectingAll, transport, address, typed, loads, alls,
                   copy, vita, history>>

\* The address field: its value changes at once, its change event comes when it loses the
\* focus, before a click elsewhere but after a scroll.
TypeAddress ==
    /\ \E v \in Vitas \ {address} : address' = v
    /\ typed' = TRUE
    /\ moved' = open
    /\ UNCHANGED <<page, loads, alls, copy, vita, replugged, changed>>

AddressChanged ==
    /\ typed
    /\ typed' = FALSE
    /\ IF open THEN selectLibraryKind(kind) ELSE KeepView
    /\ UNCHANGED <<open, address, vita>>

\* Copy to the PC: the request names the folder, the address and the transport of the
\* last page.
CopyFromVita ==
    /\ ~typed /\ open /\ ~copying /\ selected # {}
    /\ copying' = TRUE
    /\ copy' = [items |-> {i \in Range(items) : i.id \in selected},
                kind |-> kind, ip |-> address, via |-> transport]
    /\ UNCHANGED <<kind, items, selected, next, loading, generation, selectingAll, transport, open,
                   address, typed, loads, alls, vita, history>>

NoCopy == [items |-> {}, kind |-> "photo", ip |-> Cabled, via |-> "wifi"]

\* copy_from_vita returns or raises: what it copied is no longer selected.
CopyEnds ==
    /\ copying
    /\ copying' = FALSE
    /\ \E done \in SUBSET copy.items : selected' = selected \ {i.id : i \in done}
    /\ copy' = NoCopy
    /\ UNCHANGED <<kind, items, next, loading, generation, selectingAll, transport, open,
                   address, typed, loads, alls, vita, history>>

(***************************************************************************)
(* The Vitas                                                               *)
(***************************************************************************)

\* An import adds a medium, or the user of the Vita deletes one.
LibraryChanges ==
    /\ changes < MaxChanges
    /\ \E m \in Changing :
         rows' = [rows EXCEPT ![m[1]][m[2]] = IF m[3] \in @ THEN @ \ {m[3]} ELSE @ \cup {m[3]}]
    /\ changes' = changes + 1
    /\ changed' = open
    /\ UNCHANGED <<page, address, typed, loads, alls, copy, usb, moved, replugged>>

Plug ==
    /\ usb = NoCable /\ changes < MaxChanges
    /\ usb' = Catalogue
    /\ changes' = changes + 1
    /\ replugged' = open /\ changed' = open
    /\ UNCHANGED <<page, address, typed, loads, alls, copy, rows, moved>>

Unplug ==
    /\ usb # NoCable
    /\ usb' = NoCable
    /\ changed' = open
    /\ UNCHANGED <<page, address, typed, loads, alls, copy, rows, changes, moved, replugged>>

(***************************************************************************)
(* Specification                                                           *)
(***************************************************************************)

Init ==
    /\ kind = "photo" /\ items = <<>> /\ selected = {} /\ next = 0 /\ loading = FALSE
    /\ generation = 0 /\ selectingAll = FALSE /\ copying = FALSE /\ transport = "wifi"
    /\ open = FALSE /\ address = Cabled /\ typed = FALSE
    /\ loads = {} /\ alls = {} /\ copy = NoCopy
    /\ rows = Library
    /\ usb \in {NoCable, Catalogue}
    /\ changes = 0
    /\ moved = FALSE /\ replugged = FALSE /\ changed = FALSE

\* One request of the view g proceeds.
Proceeds(g) ==
    \E l \in loads :
      /\ l.gen = g
      /\ \/ \E via \in {"usb", "wifi"} : PageArrives(l, via)
         \/ PageFails(l)
         \/ ThumbsArrive(l)

User ==
    \/ \E k \in Kinds : openLibrary(k)
    \/ closeLibrary
    \/ Scroll
    \/ toggleLibraryItem
    \/ SelectAll
    \/ DeselectAll
    \/ TypeAddress
    \/ AddressChanged
    \/ CopyFromVita

Next ==
    \/ \E g \in 1 .. MaxViews : Proceeds(g)
    \/ User
    \/ CopyEnds
    \/ LibraryChanges
    \/ Plug
    \/ Unplug

Spec == Init /\ [][Next]_vars

(***************************************************************************)
(* Properties                                                              *)
(***************************************************************************)

Item == [media : Vitas \X Kinds \X Ids, id : {"usb", "wifi"} \X Nat]
Load == [gen : 1 .. MaxViews, kind : Kinds, offset : Nat, ip : Vitas, phase : {"page", "thumbs"}]

TypeOK ==
    /\ kind \in Kinds /\ items \in Seq(Item) /\ next \in Nat \cup {-1}
    /\ selected \subseteq {"usb", "wifi"} \X Nat
    /\ generation \in 0 .. MaxViews /\ transport \in {"usb", "wifi"}
    /\ loading \in BOOLEAN /\ selectingAll \in BOOLEAN /\ copying \in BOOLEAN /\ open \in BOOLEAN
    /\ address \in Vitas /\ typed \in BOOLEAN
    /\ loads \subseteq Load /\ alls \subseteq 1 .. MaxViews
    /\ copy.items \subseteq Item
    /\ usb \in {NoCable} \cup [Kinds -> Seq(Item)]

\* A page requested for one folder or Vita is never shown in another, however late it
\* comes: what is shown is of the view's folder, and of the Vita at the address or on the
\* cable unless the address was edited under the view.
OneFolder ==
    open => \A i \in DOMAIN items : /\ items[i].media[2] = kind
                                    /\ \/ items[i].media[1] \in {address, Cabled}
                                       \/ moved

\* loading is the truth about the open view: at most one request of it is under way, so no
\* page is requested twice, and none is awaited that is not coming.
OneLoadPerView ==
    open => Cardinality({l \in loads : l.gen = generation}) = (IF loading THEN 1 ELSE 0)

\* Paging by offset: when the end is reached, all pages came over the same transport, and
\* neither library, cable nor address changed meanwhile, each medium of the folder is shown
\* exactly once and in order.
PagingIsComplete ==
    /\ open /\ next = -1 /\ ~changed /\ ~moved
    /\ \A i \in DOMAIN items : items[i].id[1] = transport
    => items = Folder(transport, address, kind)

\* A copy fetches what was shown under that ID or nothing, and its view stays: folder, page
\* loads and selection go on around it.  Two things break it, and only these: an address
\* edited while a copy runs (selectLibraryKind ignores it) and, for IDs of the USB
\* catalogue, a cable plugged in again, since these IDs are positions.
CopyGetsWhatWasShown ==
    copying =>
      /\ open /\ copy.kind = kind /\ copy.items \subseteq Range(items)
      /\ \A i \in copy.items : \/ Downloaded(copy, i.id) \subseteq {i.media}
                               \/ moved
                               \/ replugged /\ i.id[1] = "usb"

=============================================================================
