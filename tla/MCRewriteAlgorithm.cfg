CONSTANTS
  QWidget = QWidget
  QEvent = QEvent
  QFoo = QFoo
  ClassList = {QWidget, QEvent}
  OtherClasses = {QFoo}
  Keys = {"class"}
  TemplateHeaders = {"tpl_class", "tpl_typename"}
  DeclPrefixes = {"none", "friend", "tpl_class", "tpl_typename"}
  ExportMacros = {"Q_CORE_EXPORT"}
  MaxLen = 4

SPECIFICATION Spec

INVARIANT RewriteIsIntendedIffSafeOrder
INVARIANT RewriteIdempotent
