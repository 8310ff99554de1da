----------------------------- MODULE MCClassMap -----------------------------
(* Two components.  core has qobject.h at its top and a second qobject.h  *)
(* in the subdirectory kernel, plus a non-header; gui has qwidget.h.      *)
EXTENDS ClassMap

CONSTANTS core, gui, Q_CORE_EXPORT, Q_GUI_EXPORT, Q_DECL_DEPRECATED,
          QObject, h1, h2, h3, t1

MCKeywords == (core :> {Q_CORE_EXPORT}) @@ (gui :> {Q_GUI_EXPORT})

\* 'Qt%s' % component.capitalize()
MCLabel == (core :> "QtCore") @@ (gui :> "QtGui")

MCCompOf == (h1 :> core) @@ (h2 :> core) @@ (t1 :> core) @@ (h3 :> gui)

MCDirOf == (h1 :> "root") @@ (h2 :> "kernel") @@ (t1 :> "root") @@ (h3 :> "root")

MCBaseOf == (h1 :> "qobject.h") @@ (h2 :> "qobject.h") @@ (t1 :> "core.pri")
            @@ (h3 :> "qwidget.h")

MCIsHeader == (h1 :> TRUE) @@ (h2 :> TRUE) @@ (t1 :> FALSE) @@ (h3 :> TRUE)
=============================================================================
