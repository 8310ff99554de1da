CONSTANTS
  core = core
  gui = gui
  Q_CORE_EXPORT = Q_CORE_EXPORT
  Q_GUI_EXPORT = Q_GUI_EXPORT
  Q_DECL_DEPRECATED = Q_DECL_DEPRECATED
  QObject = QObject
  h1 = h1
  h2 = h2
  h3 = h3
  t1 = t1
  Components = {core, gui}
  Keywords <- MCKeywords
  Label <- MCLabel
  Macros = {Q_CORE_EXPORT, Q_GUI_EXPORT, Q_DECL_DEPRECATED}
  Names = {QObject}
  DeclKeys = {"class"}
  SrcFiles = {h1, h2, h3, t1}
  CompOf <- MCCompOf
  DirOf <- MCDirOf
  BaseOf <- MCBaseOf
  IsHeader <- MCIsHeader
  Root = "root"
  MaxDecls = 1
  MaxMacros = 2

SPECIFICATION Spec

INVARIANT UnlistableDirAborts
