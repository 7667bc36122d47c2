------------------------------ MODULE ViewFollow ------------------------------
(***************************************************************************)
(* The stream follows the size of the client's window: the client tells its *)
(* settled size and repeats it (hyper_client.rs), the host's receive thread *)
(* puts it behind a lock and raises a flag, and the capture loop clears the *)
(* flag, reads the size and reopens its pipeline, not more often than every *)
(* VIEW_REBUILD_EVERY (hyper_host.rs).                                      *)
(***************************************************************************)
EXTENDS Naturals

CONSTANTS Views,        \* window sizes, and so stream sizes
          NoView        \* the host was told none yet

ASSUME ViewAssumption == NoView \notin Views

VARIABLES window,       \* the client's window
          view_told,    \* what it told last
          views,        \* on the way to the host
          view, view_lock, view_changed,  \* Shared; the lock's holder
          applied_view, follow            \* the capture loop: is it between the flag and the view

viewVars == <<window, view_told, views, view, view_lock, view_changed, applied_view, follow>>

ResizeWindow(v) ==
  /\ window # v /\ window' = v
  /\ UNCHANGED <<view_told, views, view, view_lock, view_changed, applied_view, follow>>

\* Control::View on a change, and every three seconds.
TellViewOnce ==
  /\ view_told # window /\ view_told' = window /\ views' = views \union {window}
  /\ UNCHANGED <<window, view, view_lock, view_changed, applied_view, follow>>
TellView ==
  /\ view_told' = window /\ views' = views \union {window}
  /\ UNCHANGED <<window, view, view_lock, view_changed, applied_view, follow>>

LoseView(v) ==
  /\ v \in views /\ views' = views \ {v}
  /\ UNCHANGED <<window, view_told, view, view_lock, view_changed, applied_view, follow>>

\* The receive thread: under the lock the view, then the flag.
StoreView(v) ==
  /\ v \in views /\ views' = views \ {v} /\ ~view_lock
  /\ view' = v /\ view_lock' = (view # v)
  /\ UNCHANGED <<window, view_told, view_changed, applied_view, follow>>
RaiseFlag ==
  /\ view_lock /\ view_lock' = FALSE /\ view_changed' = TRUE
  /\ UNCHANGED <<window, view_told, views, view, applied_view, follow>>

\* The capture loop: the flag is cleared first (settled: the last rebuild is
\* VIEW_REBUILD_EVERY ago), then the view is read.
ClearFlag(settled) ==
  /\ ~follow /\ settled /\ view_changed /\ view_changed' = FALSE /\ follow' = TRUE
  /\ UNCHANGED <<window, view_told, views, view, view_lock, applied_view>>
ApplyView ==
  /\ follow /\ ~view_lock /\ follow' = FALSE /\ applied_view' = view
  /\ UNCHANGED <<window, view_told, views, view, view_lock, view_changed>>

ViewInit ==
  /\ window \in Views /\ view_told = NoView /\ views = {}
  /\ view = NoView /\ view_lock = FALSE /\ view_changed = FALSE
  /\ applied_view = NoView /\ follow = FALSE

ViewNext ==
  \/ \E v \in Views : ResizeWindow(v) \/ LoseView(v) \/ StoreView(v)
  \/ TellView \/ RaiseFlag \/ ApplyView
  \/ \E settled \in BOOLEAN : ClearFlag(settled)

\* Both loops and the receive thread run; a size told again and again arrives,
\* and no datagram is on its way for ever.
ViewFairness ==
  /\ WF_viewVars(TellView) /\ WF_viewVars(RaiseFlag)
  /\ WF_viewVars(ClearFlag(TRUE)) /\ WF_viewVars(ApplyView)
  /\ SF_viewVars(StoreView(window))
  /\ \A v \in Views : WF_viewVars(LoseView(v) \/ StoreView(v))

-----------------------------------------------------------------------------
\* A window that stays as it is gets a stream of its size.
ViewFollowed == \A v \in Views : (window = v) ~> (applied_view = v \/ window # v)
=============================================================================
